---- MODULE Spec2Model ----
(***************************************************************************)
(* A model of the arbitrage bot's execution pipeline:                      *)
(*   - SignalValidator and SmartExecutionManager   (src/src/execution.py)  *)
(*   - SingleBot's analysis tick                   (src/src/bot.py)        *)
(*   - OrderbookAnalyzer / Orderbook arithmetic    (src/src/analysis,      *)
(*                                                  src/src/exchanges)     *)
(*                                                                         *)
(* Number representation.  The source computes on Python floats; the model *)
(* uses fixed point integers:                                              *)
(*   quantities  : 1 unit = 1/1000 token                                   *)
(*   percentages : 1 unit = 1/100 percent (one basis point)                *)
(*   intensities : 1 unit = 1/1000                                         *)
(*   time        : integer milliseconds, as int(time.time() * 1000)        *)
(* A handler runs at one clock reading: the clock (now) advances only      *)
(* between handlers, by the action TickTo.                                 *)
(*                                                                         *)
(* An Optional value is a sequence: <<>> is None, <<v>> is the value v.    *)
(***************************************************************************)
EXTENDS Integers, Sequences, FiniteSets, TLC

VARIABLES
    mgr,          \* the SmartExecutionManager object (a record of its fields)
    now,          \* the wall clock, int(time.time() * 1000)
    last_op,      \* name of the last manager method called
    last_result,  \* what the last update() returned (Optional SliceResult)
    upd_below_ms, \* history: time of the latest update() of the episode whose
                  \* spread argument was below entry_start_pct (Optional)
    fired_sum,    \* history: sum of the qty of the record_execution calls of the
                  \* episode that had success = true and qty > 0
    val,          \* a stand-alone SignalValidator object
    bot,          \* the SingleBot object (a record of its fields)
    intensities,  \* history: the <<spread, value>> pairs of the direct calls of
                  \* _calculate_entry_intensity on the current configuration
    bm,           \* the BotManager object, its adapters and its bots' driver tasks
    cm,           \* the server's ConnectionManager object
    an,           \* the latest call of an OrderbookAnalyzer / Orderbook method:
                  \* its arguments and what it returned (Optional)
    hm            \* the HybridExecutionManager object (None where none is built)

vars == <<mgr, now, last_op, last_result, upd_below_ms, fired_sum, val, bot, intensities, bm, cm, an, hm>>

None == <<>>
Some(v) == <<v>>
IsSome(o) == o # <<>>
Get(o) == o[1]

Min(a, b) == IF a <= b THEN a ELSE b
Min3(a, b, c) == Min(Min(a, b), c)

----------------------------------------------------------------------------
(* Bounds of the model                                                     *)

MaxTime == 4        \* the clock runs from 1 to MaxTime
MaxExec == 2        \* at most MaxExec recorded executions per episode

----------------------------------------------------------------------------
(* Orderbook (src/src/exchanges/base.py)                                   *)

RECURSIVE SumSizes(_)
SumSizes(levels) ==
    IF levels = <<>> THEN 0 ELSE Head(levels).size + SumSizes(Tail(levels))

bid_depth(ob) == SumSizes(ob.bids)
ask_depth(ob) == SumSizes(ob.asks)
best_bid(ob) == IF ob.bids # <<>> THEN ob.bids[1].price ELSE 0
best_ask(ob) == IF ob.asks # <<>> THEN ob.asks[1].price ELSE 0

\* The cost of filling `size` along `levels` in order; what is left past the
\* visible depth is priced at the last level.
RECURSIVE WalkCost(_, _)
WalkCost(levels, size) ==
    IF size <= 0 THEN 0
    ELSE IF Len(levels) = 1
         THEN size * levels[1].price
         ELSE LET fill_size == Min(size, levels[1].size)
              IN  fill_size * levels[1].price + WalkCost(Tail(levels), size - fill_size)

Level(p, s) == [price |-> p, size |-> s]

BookEmpty == [exchange |-> "a", symbol |-> "ETH", bids |-> <<>>, asks |-> <<>>]
BookThin ==
    [exchange |-> "a", symbol |-> "ETH",
     bids |-> <<Level(9990, 10000)>>, asks |-> <<Level(10000, 10000)>>]
BookDeep ==
    [exchange |-> "b", symbol |-> "ETH",
     bids |-> <<Level(10100, 10000), Level(10080, 10000)>>,
     asks |-> <<Level(10110, 10000), Level(10130, 10000)>>]

Books == {BookEmpty, BookThin, BookDeep}

----------------------------------------------------------------------------
(* OrderbookAnalyzer.calculate_max_safe_qty: called by the managers, not   *)
(* defined in the analyzer of src/; modelled from the specification        *)
(* (section 4.5, Rule of the Weakest): the bounded bisection of section    *)
(* 4.3 over [0, depth] with the predicate slippage <= max_slippage_bps.    *)

BisectIterations == 10

\* slippage(size) <= max_bps/100 percent, cross-multiplied:
\*   buy : (cost/size - best)/best * 100 <= max_bps/100
\*   sell: (best - proceeds/size)/best * 100 <= max_bps/100
SlippageWithin(levels, side, size, max_bps) ==
    LET best == levels[1].price
        cost == WalkCost(levels, size)
        diff == IF side = "buy" THEN cost - best * size ELSE best * size - cost
    IN  diff * 10000 <= max_bps * best * size

RECURSIVE SafeQtyBisect(_, _, _, _, _, _)
SafeQtyBisect(levels, side, max_bps, lo, hi, n) ==
    LET mid == (lo + hi) \div 2
    IN  IF n = 0 \/ mid <= 0 THEN lo
        ELSE IF SlippageWithin(levels, side, mid, max_bps)
             THEN SafeQtyBisect(levels, side, max_bps, mid, hi, n - 1)
             ELSE SafeQtyBisect(levels, side, max_bps, lo, mid, n - 1)

calculate_max_safe_qty(ob, side, max_slippage_bps) ==
    LET levels == IF side = "buy" THEN ob.asks ELSE ob.bids
    IN  IF levels = <<>> \/ SumSizes(levels) <= 0 THEN 0
        ELSE SafeQtyBisect(levels, side, max_slippage_bps, 0, SumSizes(levels),
                           BisectIterations)

----------------------------------------------------------------------------
(* SignalValidator (src/src/execution.py)                                  *)
(* The deque _samples is written and never read by the source; the model   *)
(* keeps of it last_below_ms, the timestamp of the latest sample whose     *)
(* above_threshold is false.                                               *)

SignalValidator(min_validity_ms) ==
    [min_validity_ms |-> min_validity_ms,
     valid_since     |-> None,
     last_below_ms   |-> None]

\* update_config() that restarts the dwell clock
update_config_clears_clock(v, min_validity_ms) ==
    [v EXCEPT !.min_validity_ms = min_validity_ms, !.valid_since = None]

update_config(v, min_validity_ms) ==
    [v EXCEPT !.min_validity_ms = min_validity_ms]

\* record() that forgets `self._valid_since = None` on a sample below the threshold
record_keeps_valid_since(v, spread, threshold, t) ==
    LET above == spread >= threshold
    IN  [v EXCEPT
           !.last_below_ms = IF above THEN @ ELSE Some(t),
           !.valid_since   = IF @ = None /\ above THEN Some(t) ELSE @]

record(v, spread, threshold, t) ==
    LET above == spread >= threshold
    IN  [v EXCEPT
           !.last_below_ms = IF above THEN @ ELSE Some(t),
           !.valid_since   = IF above
                             THEN (IF @ = None THEN Some(t) ELSE @)
                             ELSE None]

\* is_valid() that does not compare the duration with min_validity_ms
is_valid_no_dwell(v, t) ==
    v.valid_since # None

is_valid(v, t) ==
    IF v.valid_since = None THEN FALSE
    ELSE t - Get(v.valid_since) >= v.min_validity_ms

validator_reset(v) ==
    [v EXCEPT !.valid_since = None, !.last_below_ms = None]

----------------------------------------------------------------------------
(* SmartExecutionManager (src/src/execution.py)                            *)
(* _total_volume, a lifetime sum that only get_status() reads, and the log *)
(* callback are left out.                                                  *)

EntryConfig(start, full, target, slip, delay, validity) ==
    [entry_start_pct  |-> start,
     entry_full_pct   |-> full,
     target_amount    |-> target,
     max_slippage_pct |-> slip,
     refill_delay_ms  |-> delay,
     min_validity_ms  |-> validity]

ExitConfigOf(slip, delay, validity) ==
    [max_slippage_pct |-> slip,
     refill_delay_ms  |-> delay,
     min_validity_ms  |-> validity]

\* ExitConfig(): the dataclass defaults 0.05 %, 500 ms, 100 ms
ExitDefaultSlippage == 5
ExitDefaultRefillDelayMs == 500
ExitDefaultMinValidityMs == 100
ExitConfigDefault ==
    ExitConfigOf(ExitDefaultSlippage, ExitDefaultRefillDelayMs, ExitDefaultMinValidityMs)

\* SignalValidator(): min_validity_ms defaults to 100
ValidatorDefaultMinValidityMs == 100
\* __init__: _current_refill_delay_ms = 500
InitRefillDelayMs == 500

SliceResult(should_execute, size, reason, qa, qb, remaining, capped) ==
    [should_execute       |-> should_execute,
     size                 |-> size,
     reason               |-> reason,
     safe_qty_a           |-> qa,
     safe_qty_b           |-> qb,
     remaining_target     |-> remaining,
     capped_by_liquidity  |-> capped]

ManagerInit(has_analyzer) ==
    [analyzer                 |-> has_analyzer,
     mode                     |-> "idle",
     state                    |-> "idle",
     entry_config             |-> None,
     target_amount            |-> 0,
     executed_amount          |-> 0,
     exit_config              |-> None,
     exit_target              |-> 0,
     last_execution_time_ms   |-> 0,
     current_refill_delay_ms  |-> InitRefillDelayMs,
     signal_validator         |-> SignalValidator(ValidatorDefaultMinValidityMs),
     slices_executed          |-> 0,
     executions               |-> <<>>]

\* start_entry() that forgets `self._last_execution_time_ms = 0`
start_entry_keeps_last_fire(m, config) ==
    [m EXCEPT
       !.entry_config            = Some(config),
       !.mode                    = "entry",
       !.state                   = "executing",
       !.target_amount           = config.target_amount,
       !.executed_amount         = 0,
       !.current_refill_delay_ms = config.refill_delay_ms,
       !.slices_executed         = 0,
       !.executions              = <<>>,
       !.signal_validator        = SignalValidator(config.min_validity_ms)]

start_entry(m, config) ==
    [m EXCEPT
       !.entry_config            = Some(config),
       !.mode                    = "entry",
       !.state                   = "executing",
       !.target_amount           = config.target_amount,
       !.executed_amount         = 0,
       !.current_refill_delay_ms = config.refill_delay_ms,
       !.last_execution_time_ms  = 0,
       !.slices_executed         = 0,
       !.executions              = <<>>,
       !.signal_validator        = SignalValidator(config.min_validity_ms)]

\* update_entry_config() that forgets `self._current_refill_delay_ms = ...`
update_entry_config_keeps_delay(m, config) ==
    [m EXCEPT
       !.entry_config     = Some(config),
       !.signal_validator = update_config(@, config.min_validity_ms)]

update_entry_config(m, config) ==
    [m EXCEPT
       !.entry_config            = Some(config),
       !.current_refill_delay_ms = config.refill_delay_ms,
       !.signal_validator        = update_config(@, config.min_validity_ms)]

start_exit(m, position_size, config) ==
    LET cfg == IF config = None THEN ExitConfigDefault ELSE Get(config)
    IN  [m EXCEPT
           !.exit_config             = Some(cfg),
           !.mode                    = "exit",
           !.state                   = "executing",
           !.exit_target             = position_size,
           !.executed_amount         = 0,
           !.current_refill_delay_ms = cfg.refill_delay_ms,
           !.last_execution_time_ms  = 0,
           !.slices_executed         = 0,
           !.executions              = <<>>,
           !.signal_validator        = SignalValidator(cfg.min_validity_ms)]

\* can_fire() that compares the elapsed time with 0 instead of the refill delay
can_fire_no_delay(m, t) ==
    IF m.last_execution_time_ms = 0 THEN TRUE
    ELSE t - m.last_execution_time_ms >= 0

can_fire(m, t) ==
    IF m.last_execution_time_ms = 0 THEN TRUE
    ELSE t - m.last_execution_time_ms >= m.current_refill_delay_ms

_get_remaining(m) ==
    IF m.mode = "entry" THEN m.target_amount - m.executed_amount
    ELSE IF m.mode = "exit" THEN m.exit_target - m.executed_amount
    ELSE 0

\* Fallback without an analyzer: 10 % of the visible depth.
_calculate_safe_qty(m, orderbook, side, max_slippage_bps) ==
    IF m.analyzer
    THEN calculate_max_safe_qty(orderbook, side, max_slippage_bps)
    ELSE IF side = "buy"
         THEN (IF orderbook.asks # <<>> THEN ask_depth(orderbook) \div 10 ELSE 0)
         ELSE (IF orderbook.bids # <<>> THEN bid_depth(orderbook) \div 10 ELSE 0)

calculate_next_slice(m, ob_a, ob_b, direction, max_slippage_pct) ==
    LET remaining == _get_remaining(m)
        max_slippage_bps == (max_slippage_pct * 100) \div 100   \* pct * 100, in bps
        safe_qty_a == IF direction = "buy"
                      THEN _calculate_safe_qty(m, ob_a, "buy", max_slippage_bps)
                      ELSE _calculate_safe_qty(m, ob_a, "sell", max_slippage_bps)
        safe_qty_b == IF direction = "buy"
                      THEN _calculate_safe_qty(m, ob_b, "sell", max_slippage_bps)
                      ELSE _calculate_safe_qty(m, ob_b, "buy", max_slippage_bps)
        slice_size == Min3(safe_qty_a, safe_qty_b, remaining)
    IN  IF remaining <= 0
        THEN SliceResult(FALSE, 0, "No remaining target", 0, 0, 0, FALSE)
        ELSE IF slice_size <= 0
        THEN SliceResult(FALSE, 0, "Insufficient liquidity on both sides",
                         safe_qty_a, safe_qty_b, remaining, FALSE)
        ELSE SliceResult(TRUE, slice_size, "Slice",
                         safe_qty_a, safe_qty_b, remaining, slice_size < remaining)

\* _calculate_entry_intensity() whose first test is `spread < start`
_calculate_entry_intensity_strict_start(m, spread) ==
    IF m.entry_config = None THEN 1000
    ELSE LET start == Get(m.entry_config).entry_start_pct
             full  == Get(m.entry_config).entry_full_pct
         IN  IF spread < start THEN 0
             ELSE IF spread >= full THEN 1000
             ELSE 100
                  + ((900 * (spread - start))
                     \div (full - start))

\* The intensity in thousandths: 0.0, 1.0, or 0.1 + 0.9 * progress.
_calculate_entry_intensity(m, spread) ==
    IF m.entry_config = None THEN 1000
    ELSE LET start == Get(m.entry_config).entry_start_pct
             full  == Get(m.entry_config).entry_full_pct
         IN  IF spread <= start THEN 0
             ELSE IF spread >= full THEN 1000
             ELSE 100
                  + ((900 * (spread - start))
                     \div (full - start))

\* update() whose EXIT branch passes direction "buy" like the ENTRY branch
update_body_exit_buys(m, spread, ob_a, ob_b, t) ==
    IF _get_remaining(m) <= 0
    THEN [m |-> [m EXCEPT !.state = "completed"], result |-> None]
    ELSE IF ~can_fire(m, t) THEN [m |-> m, result |-> None]
    ELSE IF m.mode = "entry" /\ m.entry_config # None
    THEN LET cfg == Get(m.entry_config)
             v   == record(m.signal_validator, spread, cfg.entry_start_pct, t)
             m1  == [m EXCEPT !.signal_validator = v]
             intensity == _calculate_entry_intensity(m1, spread)
             result == calculate_next_slice(m1, ob_a, ob_b, "buy", cfg.max_slippage_pct)
         IN  IF ~is_valid(v, t) THEN [m |-> m1, result |-> None]
             ELSE IF result.should_execute
             THEN [m |-> m1,
                   result |-> Some([result EXCEPT
                                      !.size = (@ * intensity) \div 1000])]
             ELSE [m |-> m1, result |-> Some(result)]
    ELSE IF m.mode = "exit" /\ m.exit_config # None
    THEN [m |-> m,
          result |-> Some(calculate_next_slice(m, ob_a, ob_b, "buy",
                                               Get(m.exit_config).max_slippage_pct))]
    ELSE [m |-> m, result |-> None]

\* update() returns [m |-> the manager after the call, result |-> what it returns]
update_body(m, spread, ob_a, ob_b, t) ==
    IF _get_remaining(m) <= 0
    THEN [m |-> [m EXCEPT !.state = "completed"], result |-> None]
    ELSE IF ~can_fire(m, t) THEN [m |-> m, result |-> None]
    ELSE IF m.mode = "entry" /\ m.entry_config # None
    THEN LET cfg == Get(m.entry_config)
             v   == record(m.signal_validator, spread, cfg.entry_start_pct, t)
             m1  == [m EXCEPT !.signal_validator = v]
             intensity == _calculate_entry_intensity(m1, spread)
             result == calculate_next_slice(m1, ob_a, ob_b, "buy", cfg.max_slippage_pct)
         IN  IF ~is_valid(v, t) THEN [m |-> m1, result |-> None]
             ELSE IF result.should_execute
             THEN [m |-> m1,
                   result |-> Some([result EXCEPT
                                      !.size = (@ * intensity) \div 1000])]
             ELSE [m |-> m1, result |-> Some(result)]
    ELSE IF m.mode = "exit" /\ m.exit_config # None
    THEN [m |-> m,
          result |-> Some(calculate_next_slice(m, ob_a, ob_b, "sell",
                                               Get(m.exit_config).max_slippage_pct))]
    ELSE [m |-> m, result |-> None]

\* update() without its first test, `if self.state != EXECUTING: return None`
update_no_state_test(m, spread, ob_a, ob_b, t) ==
    update_body(m, spread, ob_a, ob_b, t)

update(m, spread, ob_a, ob_b, t) ==
    IF m.state # "executing" THEN [m |-> m, result |-> None]
    ELSE update_body(m, spread, ob_a, ob_b, t)

\* record_execution that stamps the fire time also of a failed or empty
\* execution
record_execution_stamps_failures(m, qty, success, t) ==
    IF success /\ qty > 0
    THEN LET m1 == [m EXCEPT
                      !.executed_amount        = @ + qty,
                      !.last_execution_time_ms = t,
                      !.slices_executed        = @ + 1]
             m2 == [m1 EXCEPT
                      !.executions = Append(@, [qty            |-> qty,
                                                executed_total |-> m1.executed_amount,
                                                remaining      |-> _get_remaining(m1),
                                                timestamp      |-> t])]
         IN  IF _get_remaining(m2) <= 0
             THEN [m2 EXCEPT !.state = "completed"]
             ELSE m2
    ELSE [m EXCEPT !.last_execution_time_ms = t]

record_execution(m, qty, success, t) ==
    IF success /\ qty > 0
    THEN LET m1 == [m EXCEPT
                      !.executed_amount        = @ + qty,
                      !.last_execution_time_ms = t,
                      !.slices_executed        = @ + 1]
             m2 == [m1 EXCEPT
                      !.executions = Append(@, [qty            |-> qty,
                                                executed_total |-> m1.executed_amount,
                                                remaining      |-> _get_remaining(m1),
                                                timestamp      |-> t])]
         IN  IF _get_remaining(m2) <= 0
             THEN [m2 EXCEPT !.state = "completed"]
             ELSE m2
    ELSE m

\* reset() that forgets `self._executions = []`
reset_keeps_executions(m) ==
    [m EXCEPT
       !.mode                   = "idle",
       !.state                  = "idle",
       !.entry_config           = None,
       !.exit_config            = None,
       !.target_amount          = 0,
       !.exit_target            = 0,
       !.executed_amount        = 0,
       !.last_execution_time_ms = 0,
       !.slices_executed        = 0,
       !.signal_validator       = validator_reset(@)]

reset(m) ==
    [m EXCEPT
       !.mode                   = "idle",
       !.state                  = "idle",
       !.entry_config           = None,
       !.exit_config            = None,
       !.target_amount          = 0,
       !.exit_target            = 0,
       !.executed_amount        = 0,
       !.last_execution_time_ms = 0,
       !.slices_executed        = 0,
       !.executions             = <<>>,
       !.signal_validator       = validator_reset(@)]

----------------------------------------------------------------------------
(* OrderbookAnalyzer (src/src/analysis/orderbook_analyzer.py) and the       *)
(* slippage estimates of Orderbook (src/src/exchanges/base.py).            *)
(* Percentages are in 1/100 percent, each term rounded down as it is       *)
(* computed.  Of a SpreadOpportunity the model keeps the fields that the   *)
(* bot reads to decide; sizes, confidence and latencies are left out, and  *)
(* so are the latency statistics and the moving averages of HFTStats.      *)

\* estimate_buy_slippage that prices what is past the visible depth at the
\* best ask
estimate_buy_slippage_remainder_at_best(ob, size) ==
    IF ob.asks = <<>> \/ size <= 0 THEN 0
    ELSE LET visible == Min(size, ask_depth(ob))
         IN  ((WalkCost(ob.asks, visible) - best_ask(ob) * visible) * 100 * 100)
             \div (best_ask(ob) * size)

estimate_buy_slippage(ob, size) ==
    IF ob.asks = <<>> \/ size <= 0 THEN 0
    ELSE ((WalkCost(ob.asks, size) - best_ask(ob) * size) * 100 * 100)
         \div (best_ask(ob) * size)

estimate_sell_slippage(ob, size) ==
    IF ob.bids = <<>> \/ size <= 0 THEN 0
    ELSE ((best_bid(ob) * size - WalkCost(ob.bids, size)) * 100 * 100)
         \div (best_bid(ob) * size)

OrderbookAnalyzer(default_trade_size, fee_bps) ==
    [default_trade_size |-> default_trade_size, fee_bps |-> fee_bps]

\* trade_size is Optional; `trade_size or self.default_trade_size`
analyze_spread(analyzer, ob_buy, ob_sell, trade_size) ==
    IF ob_buy.asks = <<>> \/ ob_sell.bids = <<>> THEN None
    ELSE LET size == IF trade_size # None /\ Get(trade_size) # 0
                     THEN Get(trade_size)
                     ELSE analyzer.default_trade_size
             buy_price  == best_ask(ob_buy)
             sell_price == best_bid(ob_sell)
         IN  IF buy_price <= 0 \/ sell_price <= 0 THEN None
             ELSE LET spread_pct    == ((sell_price - buy_price) * 100 * 100)
                                       \div buy_price
                      buy_slippage  == estimate_buy_slippage(ob_buy, size)
                      sell_slippage == estimate_sell_slippage(ob_sell, size)
                      fee_pct       == (analyzer.fee_bps * 100) \div 100   \* fee_bps / 100 percent
                      net_spread    == spread_pct - (buy_slippage + sell_slippage) - fee_pct
                  IN  Some([symbol                    |-> ob_buy.symbol,
                            buy_exchange              |-> ob_buy.exchange,
                            sell_exchange             |-> ob_sell.exchange,
                            buy_price                 |-> buy_price,
                            sell_price                |-> sell_price,
                            spread_percent            |-> spread_pct,
                            buy_slippage_pct          |-> buy_slippage,
                            sell_slippage_pct         |-> sell_slippage,
                            net_spread_after_slippage |-> net_spread])

find_best_opportunity(analyzer, ob_a, ob_b, trade_size) ==
    LET opp_1 == analyze_spread(analyzer, ob_a, ob_b, trade_size)
        opp_2 == analyze_spread(analyzer, ob_b, ob_a, trade_size)
    IN  IF opp_1 = None /\ opp_2 = None THEN None
        ELSE IF opp_1 = None THEN opp_2
        ELSE IF opp_2 = None THEN opp_1
        ELSE IF Get(opp_1).net_spread_after_slippage > Get(opp_2).net_spread_after_slippage
             THEN opp_1
             ELSE opp_2

\* for _ in range(10)
MaxProfitableIterations == 10

\* spread_pct - buy_slippage - sell_slippage - fee_pct at size mid_size, as the
\* loop body of _find_max_profitable_size computes it
net_spread_at(analyzer, ob_buy, ob_sell, mid_size) ==
    LET buy_slippage  == estimate_buy_slippage(ob_buy, mid_size)
        sell_slippage == estimate_sell_slippage(ob_sell, mid_size)
        buy_price     == best_ask(ob_buy)
        sell_price    == best_bid(ob_sell)
        spread_pct    == ((sell_price - buy_price) * 100 * 100) \div buy_price
        fee_pct       == (analyzer.fee_bps * 100) \div 100
    IN  spread_pct - buy_slippage - sell_slippage - fee_pct

\* The loop of _find_max_profitable_size with n iterations left.  Returns
\* [min_size |-> the lower bound at the end, mids |-> the midpoints tried].
RECURSIVE max_profitable_loop(_, _, _, _, _, _, _)
max_profitable_loop(analyzer, ob_buy, ob_sell, min_size, max_size, n, mids) ==
    LET mid_size == (min_size + max_size) \div 2
    IN  IF n = 0 \/ mid_size <= 0 THEN [min_size |-> min_size, mids |-> mids]
        ELSE IF net_spread_at(analyzer, ob_buy, ob_sell, mid_size) > 0
             THEN max_profitable_loop(analyzer, ob_buy, ob_sell, mid_size, max_size,
                                      n - 1, Append(mids, mid_size))
             ELSE max_profitable_loop(analyzer, ob_buy, ob_sell, min_size, mid_size,
                                      n - 1, Append(mids, mid_size))

\* the bisection that returns its upper bound
_find_max_profitable_size_trace_upper(analyzer, ob_buy, ob_sell) ==
    IF ob_buy.asks = <<>> \/ ob_sell.bids = <<>>
    THEN [min_size |-> 0, mids |-> <<>>]
    ELSE LET max_size == Min(ask_depth(ob_buy), bid_depth(ob_sell))
         IN  IF max_size <= 0 THEN [min_size |-> 0, mids |-> <<>>]
             ELSE [max_profitable_loop(analyzer, ob_buy, ob_sell, 0, max_size,
                                       MaxProfitableIterations, <<>>)
                     EXCEPT !.min_size = max_size]

\* _find_max_profitable_size with the midpoints it tried
_find_max_profitable_size_trace(analyzer, ob_buy, ob_sell) ==
    IF ob_buy.asks = <<>> \/ ob_sell.bids = <<>>
    THEN [min_size |-> 0, mids |-> <<>>]
    ELSE LET max_size == Min(ask_depth(ob_buy), bid_depth(ob_sell))
         IN  IF max_size <= 0 THEN [min_size |-> 0, mids |-> <<>>]
             ELSE max_profitable_loop(analyzer, ob_buy, ob_sell, 0, max_size,
                                      MaxProfitableIterations, <<>>)

_find_max_profitable_size(analyzer, ob_buy, ob_sell) ==
    _find_max_profitable_size_trace(analyzer, ob_buy, ob_sell).min_size

----------------------------------------------------------------------------
(* SingleBot (src/src/bot.py)                                              *)

\* max_position_size is Optional: None is a config object without the
\* attribute, which is what the dataclass BotConfig builds; reading it then
\* raises AttributeError.
\* poll_interval_ms: int = 50
BotPollIntervalMs == 50

BotConfig(entry_start_pct, target_amount, dry_run, fee_bps, max_position_size) ==
    [exchange_a        |-> "a",
     exchange_b        |-> "b",
     entry_start_pct   |-> entry_start_pct,
     target_amount     |-> target_amount,
     dry_run           |-> dry_run,
     fee_bps           |-> fee_bps,
     poll_interval_ms  |-> BotPollIntervalMs,
     max_position_size |-> max_position_size]

HFTStats ==
    [polls                    |-> 0,
     ws_updates               |-> 0,
     opportunities            |-> 0,
     profitable_opportunities |-> 0,
     trades                   |-> 0,
     errors                   |-> 0,
     last_spread              |-> 0,
     best_spread_seen         |-> 0,
     last_net_spread          |-> 0,
     last_opportunity         |-> None]

record_spread(stats, spread) ==
    [stats EXCEPT
       !.last_spread      = spread,
       !.best_spread_seen = IF spread > @ THEN spread ELSE @]

\* adapters: exchange_a and exchange_b are set; tasks: the _execute_trade tasks
\* created and not yet run; tick_slices: history, the results of the
\* execution_manager.update() calls made by the latest tick; book_ms: the
\* timestamp field of the two cached Orderbook objects.
SingleBot(bot_config) ==
    [config      |-> bot_config,
     running     |-> FALSE,
     ws_mode     |-> FALSE,
     adapters    |-> FALSE,
     stats       |-> HFTStats,
     analyzer    |-> OrderbookAnalyzer(bot_config.target_amount, bot_config.fee_bps),
     orderbooks  |-> [exchange_a |-> None, exchange_b |-> None, last_update |-> 0],
     tasks       |-> 0,
     tick_slices |-> <<>>,
     book_ms     |-> [exchange_a |-> 0, exchange_b |-> 0]]

\* _analyze_opportunity that creates the execution task whatever dry_run says
_analyze_opportunity_ignores_dry_run(b) ==
    IF b.orderbooks.exchange_a = None \/ b.orderbooks.exchange_b = None
    THEN [bot |-> b, raised |-> FALSE]
    ELSE IF b.config.max_position_size = None
    THEN [bot |-> b, raised |-> TRUE]
    ELSE LET opp == find_best_opportunity(b.analyzer,
                                          Get(b.orderbooks.exchange_a),
                                          Get(b.orderbooks.exchange_b),
                                          b.config.max_position_size)
         IN  IF opp = None THEN [bot |-> b, raised |-> FALSE]
             ELSE LET net == Get(opp).net_spread_after_slippage
                      s1  == [record_spread(b.stats, Get(opp).spread_percent) EXCEPT
                                !.last_net_spread  = net,
                                !.last_opportunity = opp,
                                !.opportunities    = @ + 1]
                      b1  == [b EXCEPT !.stats = s1]
                  IN  IF net >= b.config.entry_start_pct
                      THEN [bot |-> [b1 EXCEPT
                                       !.stats.profitable_opportunities = @ + 1,
                                       !.tasks = @ + 1],
                            raised |-> FALSE]
                      ELSE [bot |-> b1, raised |-> FALSE]

\* Returns [bot |-> the bot after the call, raised |-> an exception left the call]
_analyze_opportunity(b) ==
    IF b.orderbooks.exchange_a = None \/ b.orderbooks.exchange_b = None
    THEN [bot |-> b, raised |-> FALSE]
    ELSE IF b.config.max_position_size = None
    THEN [bot |-> b, raised |-> TRUE]
    ELSE LET opp == find_best_opportunity(b.analyzer,
                                          Get(b.orderbooks.exchange_a),
                                          Get(b.orderbooks.exchange_b),
                                          b.config.max_position_size)
         IN  IF opp = None THEN [bot |-> b, raised |-> FALSE]
             ELSE LET net == Get(opp).net_spread_after_slippage
                      s1  == [record_spread(b.stats, Get(opp).spread_percent) EXCEPT
                                !.last_net_spread  = net,
                                !.last_opportunity = opp,
                                !.opportunities    = @ + 1]
                      b1  == [b EXCEPT !.stats = s1]
                  IN  IF net >= b.config.entry_start_pct
                      THEN IF b.config.dry_run
                           THEN [bot |-> [b1 EXCEPT
                                            !.stats.profitable_opportunities = @ + 1,
                                            !.stats.trades = @ + 1],
                                 raised |-> FALSE]
                           ELSE [bot |-> [b1 EXCEPT
                                            !.stats.profitable_opportunities = @ + 1,
                                            !.tasks = @ + 1],
                                 raised |-> FALSE]
                      ELSE [bot |-> b1, raised |-> FALSE]

\* poll() that caches the fetched books before it tests them for None
poll_caches_first(b, fetched_a, fetched_b, fetch_raises, t) ==
    IF ~b.adapters THEN b
    ELSE LET b0 == [b EXCEPT !.stats.polls = @ + 1, !.tick_slices = <<>>]
         IN  IF fetch_raises THEN [b0 EXCEPT !.stats.errors = @ + 1]
             ELSE LET b1 == [b0 EXCEPT
                               !.orderbooks = [exchange_a  |-> fetched_a,
                                               exchange_b  |-> fetched_b,
                                               last_update |-> t],
                               !.book_ms    = [exchange_a |-> t, exchange_b |-> t]]
                      r  == _analyze_opportunity(b1)
                  IN  IF fetched_a = None \/ fetched_b = None
                      THEN [b1 EXCEPT !.stats.errors = @ + 1]
                      ELSE IF r.raised
                      THEN [r.bot EXCEPT !.stats.errors = @ + 1]
                      ELSE r.bot

\* fetched_a, fetched_b: what the two get_orderbook calls return (Optional);
\* fetch_raises: one of them raises instead.
poll(b, fetched_a, fetched_b, fetch_raises, t) ==
    IF ~b.adapters THEN b
    ELSE LET b0 == [b EXCEPT !.stats.polls = @ + 1, !.tick_slices = <<>>]
         IN  IF fetch_raises THEN [b0 EXCEPT !.stats.errors = @ + 1]
             ELSE IF fetched_a = None \/ fetched_b = None
             THEN [b0 EXCEPT !.stats.errors = @ + 1]
             ELSE LET b1 == [b0 EXCEPT
                               !.orderbooks = [exchange_a  |-> fetched_a,
                                               exchange_b  |-> fetched_b,
                                               last_update |-> t],
                               !.book_ms    = [exchange_a |-> t, exchange_b |-> t]]
                      r  == _analyze_opportunity(b1)
                  IN  IF r.raised
                      THEN [r.bot EXCEPT !.stats.errors = @ + 1]
                      ELSE r.bot

\* An exception of _analyze_opportunity leaves the callback towards the adapter;
\* what the callback assigned before it stays.
_on_orderbook_update(b, orderbook, t) ==
    LET b0 == [b EXCEPT !.stats.ws_updates = @ + 1, !.tick_slices = <<>>]
        b1 == IF orderbook.exchange = b.config.exchange_a
              THEN [b0 EXCEPT !.orderbooks.exchange_a = Some(orderbook),
                              !.book_ms.exchange_a = t]
              ELSE IF orderbook.exchange = b.config.exchange_b
              THEN [b0 EXCEPT !.orderbooks.exchange_b = Some(orderbook),
                              !.book_ms.exchange_b = t]
              ELSE b0
        b2 == [b1 EXCEPT !.orderbooks.last_update = t]
    IN  IF b2.orderbooks.exchange_a # None /\ b2.orderbooks.exchange_b # None
        THEN _analyze_opportunity(b2).bot
        ELSE b2

\* The body of a created task; the order submission is a TODO of the source.
_execute_trade(b) ==
    [b EXCEPT !.stats.trades = @ + 1, !.tasks = @ - 1]

----------------------------------------------------------------------------
(* BotManager, the adapters' push feeds and the bots' driver tasks         *)
(* (src/src/bot.py, src/src/exchanges/lighter.py, extended.py)             *)
(* A coroutine is cut at its awaits on I/O: each piece between two awaits  *)
(* is one step.  An await on a coroutine that returns without suspending   *)
(* (get_adapter on a registered venue) does not yield to the event loop.   *)

BotIds == {1, 2}
Venues == {"lighter", "extended"}

\* What the two create_bot requests of the model ask for: two symbols, the
\* same two venues, push mode, poll_interval of 1 ms.
ManagedConfig(i) ==
    [symbol           |-> IF i = 1 THEN "ETH-USD" ELSE "BTC-USD",
     exchange_a       |-> "lighter",
     exchange_b       |-> "extended",
     poll_interval_ms |-> 1,
     use_websocket    |-> TRUE]

\* An ExchangeAdapter object: initialize() returned true, _connected, _ws
\* open, _ws_task running, _orderbook_callback (the bot it calls),
\* _subscribed_symbols non-empty, _subscribed_symbols.
Adapter(venue) ==
    [venue       |-> venue,
     initialized |-> FALSE,
     connected  |-> FALSE,
     ws_open    |-> FALSE,
     ws_task    |-> FALSE,
     callback   |-> None,
     subscribed |-> FALSE,
     symbols    |-> {}]

\* A SingleBot as the manager and its driver task see it.  pc is the place of
\* the task bot.run(); stopped, failed_reconnects are history: stop_bot has
\* returned, and the number of reconnect attempts in a row that failed.
\* created: the bot is in manager.bots.  prev_pc, prev_wake_ms: the place and
\* the wake-up time of a bot.run() task created before the present one and
\* not finished (Optional; the model follows one such task).  book_a, book_b:
\* the symbol of the cached orderbooks.exchange_a / exchange_b (Optional).
ManagedBot(i) ==
    [config            |-> ManagedConfig(i),
     created           |-> FALSE,
     running           |-> FALSE,
     ws_mode           |-> FALSE,
     exchange_a        |-> None,
     exchange_b        |-> None,
     pc                |-> "none",
     ws_a              |-> FALSE,
     polls             |-> 0,
     ws_updates        |-> 0,
     wake_ms           |-> 0,
     stopped           |-> FALSE,
     failed_reconnects |-> 0,
     prev_pc           |-> None,
     prev_wake_ms      |-> 0,
     book_a            |-> None,
     book_b            |-> None]

\* _adapters: venue -> Optional index into objs, the adapter objects built so
\* far; calls: the create_bot coroutine of each request.
BotManagerInit ==
    [_adapters |-> [v \in Venues |-> None],
     objs      |-> <<>>,
     calls     |-> [i \in BotIds |-> [pc |-> "idle", pending |-> None]],
     bots      |-> [i \in BotIds |-> ManagedBot(i)]]

\* create_bot, from `bot.running = True` to its return
create_bot_finish(m, i) ==
    IF m.bots[i].exchange_a = None \/ m.bots[i].exchange_b = None
    THEN [m EXCEPT !.calls[i].pc = "failed"]
    ELSE [m EXCEPT
            !.calls[i].pc     = "done",
            !.bots[i].running = TRUE,
            !.bots[i].created = TRUE,
            !.bots[i].pc      = "run"]

\* get_adapter(exchange_b) up to its await of adapter.initialize()
get_adapter_b(m, i) ==
    LET venue == m.bots[i].config.exchange_b
    IN  IF m._adapters[venue] # None
        THEN create_bot_finish([m EXCEPT !.bots[i].exchange_b = m._adapters[venue]], i)
        ELSE [m EXCEPT
                !.objs             = Append(@, Adapter(venue)),
                !.calls[i].pending = Some(Len(m.objs) + 1),
                !.calls[i].pc      = "init_b"]

\* get_adapter(exchange_a) up to its await of adapter.initialize()
get_adapter_a(m, i) ==
    LET venue == m.bots[i].config.exchange_a
    IN  IF m._adapters[venue] # None
        THEN get_adapter_b([m EXCEPT !.bots[i].exchange_a = m._adapters[venue]], i)
        ELSE [m EXCEPT
                !.objs             = Append(@, Adapter(venue)),
                !.calls[i].pending = Some(Len(m.objs) + 1),
                !.calls[i].pc      = "init_a"]

\* create_bot up to its first await that suspends
create_bot(m, i) ==
    IF \E j \in BotIds : /\ m.bots[j].created
                         /\ m.bots[j].config.symbol = m.bots[i].config.symbol
                         /\ m.bots[j].running
    THEN [m EXCEPT !.calls[i].pc = "failed"]
    ELSE get_adapter_a(m, i)

\* get_adapter from the return of adapter.initialize() on, and what create_bot
\* does next
get_adapter_initialized(m, i, success) ==
    LET obj   == m.calls[i].pending
        venue == m.objs[Get(obj)].venue
        m1    == IF success
                 THEN [m EXCEPT !._adapters[venue] = obj,
                                !.objs[Get(obj)].initialized = TRUE]
                 ELSE m
        got   == IF success THEN obj ELSE None
    IN  IF m.calls[i].pc = "init_a"
        THEN get_adapter_b([m1 EXCEPT !.bots[i].exchange_a = got,
                                      !.calls[i].pending = None], i)
        ELSE create_bot_finish([m1 EXCEPT !.bots[i].exchange_b = got,
                                          !.calls[i].pending = None], i)

stop_bot(m, i) ==
    IF ~m.bots[i].created THEN m
    ELSE [m EXCEPT !.bots[i].running = FALSE, !.bots[i].stopped = TRUE]

\* start_bot of the API server: running = True and create_task(bot.run()); a
\* task of the bot that has not finished stays alive next to the new one
start_bot(m, i) ==
    IF ~m.bots[i].created \/ m.bots[i].running THEN m
    ELSE LET alive == m.bots[i].pc \notin {"none", "done"}
         IN  [m EXCEPT
                !.bots[i].running      = TRUE,
                !.bots[i].stopped      = FALSE,
                !.bots[i].prev_pc      = IF alive THEN Some(m.bots[i].pc) ELSE @,
                !.bots[i].prev_wake_ms = IF alive THEN m.bots[i].wake_ms ELSE @,
                !.bots[i].wake_ms      = 0,
                !.bots[i].pc           = "run"]

\* remove_bot: running = False and `del self.bots[bot_id]`
remove_bot(m, i) ==
    IF ~m.bots[i].created THEN m
    ELSE [m EXCEPT !.bots[i].running = FALSE, !.bots[i].created = FALSE]

\* one iteration of run_polling in the earlier task: poll(), then sleep
prev_run_polling_iteration(m, i, t) ==
    [m EXCEPT !.bots[i].polls = @ + 1,
              !.bots[i].prev_wake_ms = t + m.bots[i].config.poll_interval_ms]

\* the earlier task reads running = False at the top of its loop and returns
prev_run_ends(m, i) ==
    [m EXCEPT !.bots[i].prev_pc = None]

\* connect_websocket: ok is whether ws_connect and send_json went through
connect_websocket(a, symbol, ok) ==
    IF ok
    THEN [a EXCEPT !.ws_open = TRUE,
                   !.connected = IF a.ws_open THEN @ ELSE TRUE,
                   !.ws_task = IF a.ws_open THEN @ ELSE TRUE,
                   !.subscribed = TRUE,
                   !.symbols = @ \cup {symbol}]
    ELSE [a EXCEPT !.connected = FALSE]

disconnect_websocket(a) ==
    [a EXCEPT !.ws_task = FALSE, !.ws_open = FALSE,
              !.connected = FALSE, !.subscribed = FALSE, !.symbols = {}]

\* _handle_ws_messages leaves its loop (error message, exception, close)
_handle_ws_messages_ends(a) ==
    [a EXCEPT !.ws_task = FALSE, !.connected = FALSE]

\* run() and run_websocket up to `await exchange_a.connect_websocket(...)`
run_websocket_start(m, i) ==
    IF ~m.bots[i].config.use_websocket
    THEN [m EXCEPT !.bots[i].pc = "polling"]
    ELSE [m EXCEPT
            !.bots[i].ws_mode = TRUE,
            !.objs[Get(m.bots[i].exchange_a)].callback = Some(i),
            !.objs[Get(m.bots[i].exchange_b)].callback = Some(i),
            !.bots[i].pc = "connect_a"]

run_websocket_connected_a(m, i, ok) ==
    [m EXCEPT
       !.objs[Get(m.bots[i].exchange_a)] = connect_websocket(@, m.bots[i].config.symbol, ok),
       !.bots[i].ws_a = ok,
       !.bots[i].pc = "connect_b"]

\* run_websocket whose fallback forgets `self._ws_mode = False`
run_websocket_connected_b_keeps_mode(m, i, ok) ==
    LET m1 == [m EXCEPT !.objs[Get(m.bots[i].exchange_b)] = connect_websocket(@, m.bots[i].config.symbol, ok)]
    IN  IF ~m.bots[i].ws_a \/ ~ok
        THEN [m1 EXCEPT !.bots[i].pc = "polling"]
        ELSE [m1 EXCEPT !.bots[i].pc = "ws_loop"]

\* from the return of exchange_b.connect_websocket to the fallback or the loop
run_websocket_connected_b(m, i, ok) ==
    LET m1 == [m EXCEPT !.objs[Get(m.bots[i].exchange_b)] = connect_websocket(@, m.bots[i].config.symbol, ok)]
    IN  IF ~m.bots[i].ws_a \/ ~ok
        THEN [m1 EXCEPT !.bots[i].ws_mode = FALSE, !.bots[i].pc = "polling"]
        ELSE [m1 EXCEPT !.bots[i].pc = "ws_loop"]

FeedsConnected(m, i) ==
    /\ m.objs[Get(m.bots[i].exchange_a)].connected
    /\ m.objs[Get(m.bots[i].exchange_b)].connected

\* one iteration of `while self.running` in run_websocket whose health check
\* fails: sleep(1), then one connect_websocket per venue
run_websocket_reconnect(m, i, ok_a, ok_b) ==
    [m EXCEPT
       !.objs[Get(m.bots[i].exchange_a)] = connect_websocket(@, m.bots[i].config.symbol, ok_a),
       !.objs[Get(m.bots[i].exchange_b)] = connect_websocket(@, m.bots[i].config.symbol, ok_b),
       !.bots[i].failed_reconnects = IF ok_a /\ ok_b THEN 0 ELSE @ + 1]

\* the `finally` of run_websocket
run_websocket_cleanup(m, i) ==
    LET m1 == [m  EXCEPT !.objs[Get(m.bots[i].exchange_a)] = disconnect_websocket(@)]
        m2 == [m1 EXCEPT !.objs[Get(m.bots[i].exchange_b)] = disconnect_websocket(@)]
    IN  [m2 EXCEPT !.bots[i].pc = "done"]

\* one iteration of run_polling: poll(), then sleep(poll_interval)
run_polling_iteration(m, i, t) ==
    [m EXCEPT !.bots[i].polls = @ + 1,
              !.bots[i].wake_ms = t + m.bots[i].config.poll_interval_ms]

\* the adapter's _process_orderbook_update calls the one callback it holds
\* with the book of one of the symbols it is subscribed to; the bot's
\* _on_orderbook_update stores the book by its exchange
adapter_push(m, k, symbol) ==
    LET i == Get(m.objs[k].callback)
    IN  [m EXCEPT
           !.bots[i].ws_updates = @ + 1,
           !.bots[i].book_a = IF m.objs[k].venue = m.bots[i].config.exchange_a
                              THEN Some(symbol) ELSE @,
           !.bots[i].book_b = IF m.objs[k].venue # m.bots[i].config.exchange_a
                                 /\ m.objs[k].venue = m.bots[i].config.exchange_b
                              THEN Some(symbol) ELSE @]

----------------------------------------------------------------------------
(* HybridExecutionManager (src/src/execution_manager.py)                   *)
(* Spreads and thresholds are in 1/100 percent, quantities in 1/1000       *)
(* token, percentages of a quantity in percent, the clock in the units of  *)
(* `now`.  Methods whose name SmartExecutionManager or SignalValidator     *)
(* also has carry the prefix hybrid_.  The list _executions is written and *)
(* never read; the model leaves it out.                                    *)

ExecutionConfig(start, end, count, distribution, twap_interval, twap_qty_pct) ==
    [grid_start_spread    |-> start,
     grid_end_spread      |-> end,
     grid_levels_count    |-> count,
     grid_distribution    |-> distribution,
     twap_interval        |-> twap_interval,
     twap_qty_pct         |-> twap_qty_pct,
     profit_threshold_pct |-> 20,
     max_slippage_bps     |-> 5]

GridLevel(index, spread_threshold, qty_pct) ==
    [index |-> index, spread_threshold |-> spread_threshold,
     qty_pct |-> qty_pct, triggered |-> FALSE]

\* the levels _rebuild_grid generates from a config; index i runs from 0
grid_levels_of(config) ==
    LET count == IF config.grid_levels_count > 2 THEN config.grid_levels_count ELSE 2
        start == config.grid_start_spread
        end   == config.grid_end_spread
        level(i) == IF config.grid_distribution = "exponential"
                    THEN start - ((start - end) * i * i) \div ((count - 1) * (count - 1))
                    ELSE start - i * ((start - end) \div (count - 1))
    IN  [k \in 1..count |-> GridLevel(k - 1, level(k - 1), 100 \div count)]

_rebuild_grid(h) ==
    [h EXCEPT !.grid_levels = grid_levels_of(h.config)]

HybridExecutionManager(config, analyzer) ==
    _rebuild_grid(
        [config              |-> config,
         analyzer            |-> analyzer,
         state               |-> "idle",
         initial_position    |-> 0,
         remaining_position  |-> 0,
         side                |-> "",
         grid_levels         |-> <<>>,
         last_execution_time |-> 0,
         last_spread         |-> 0,
         backlog_qty         |-> 0,
         total_executed      |-> 0])

\* self.config is assigned before the comparison, which therefore compares
\* new_config's start and end with themselves
hybrid_update_config(h, new_config) ==
    LET old_levels == h.config.grid_levels_count
        h1         == [h EXCEPT !.config = new_config]
    IN  IF \/ new_config.grid_levels_count # old_levels
           \/ new_config.grid_start_spread # h1.config.grid_start_spread
           \/ new_config.grid_end_spread # h1.config.grid_end_spread
        THEN LET old_triggered == h1.grid_levels
                 h2            == _rebuild_grid(h1)
             IN  [h2 EXCEPT !.grid_levels =
                    [k \in 1..Len(h2.grid_levels) |->
                        IF k <= Len(old_triggered)
                        THEN [h2.grid_levels[k] EXCEPT !.triggered = old_triggered[k].triggered]
                        ELSE h2.grid_levels[k]]]
        ELSE h1

hybrid_start_exit(h, position_size, side, t) ==
    IF position_size <= 0 THEN h
    ELSE [h EXCEPT
            !.state               = "executing",
            !.initial_position    = position_size,
            !.remaining_position  = position_size,
            !.side                = side,
            !.last_execution_time = t,
            !.backlog_qty         = 0,
            !.total_executed      = 0,
            !.grid_levels         = [k \in 1..Len(@) |-> [@[k] EXCEPT !.triggered = FALSE]]]

ExecutionSignal(should_execute, qty, trigger_type, level_index, capped_by_vwap) ==
    [should_execute |-> should_execute, qty |-> qty, trigger_type |-> trigger_type,
     level_index |-> level_index, capped_by_vwap |-> capped_by_vwap]

NoSignal == ExecutionSignal(FALSE, 0, "none", None, FALSE)

\* ob_long, ob_short are Optional
hybrid_calculate_safe_qty(h, desired_qty, ob_long, ob_short) ==
    IF ~h.analyzer THEN desired_qty
    ELSE IF h.side = "long" /\ ob_long # None
    THEN calculate_max_safe_qty(Get(ob_long), "sell", h.config.max_slippage_bps)
    ELSE IF h.side = "short" /\ ob_short # None
    THEN calculate_max_safe_qty(Get(ob_short), "buy", h.config.max_slippage_bps)
    ELSE desired_qty

\* The index (from 1) of the first level not triggered whose threshold the
\* spread has reached, 0 if there is none.
FirstGridHit(h, current_spread) ==
    LET hits == {k \in 1..Len(h.grid_levels) :
                    /\ ~h.grid_levels[k].triggered
                    /\ current_spread <= h.grid_levels[k].spread_threshold}
    IN  IF hits = {} THEN 0 ELSE CHOOSE k \in hits : \A j \in hits : k <= j

\* Returns [h, signal] with signal Optional
_check_grid_trigger(h, current_spread) ==
    LET k == FirstGridHit(h, current_spread)
    IN  IF k = 0 THEN [h |-> h, signal |-> None]
        ELSE LET level == h.grid_levels[k]
                 qty   == Min((level.qty_pct * h.initial_position) \div 100,
                              h.remaining_position)
             IN  [h      |-> [h EXCEPT !.grid_levels[k].triggered = TRUE],
                  signal |-> Some(ExecutionSignal(TRUE, qty, "grid", Some(level.index), FALSE))]

\* Returns an Optional signal; changes nothing
_check_twap_trigger(h, current_spread, t) ==
    IF current_spread > h.config.profit_threshold_pct THEN None
    ELSE IF t - h.last_execution_time >= h.config.twap_interval
    THEN Some(ExecutionSignal(TRUE,
                              Min((h.config.twap_qty_pct * h.remaining_position) \div 100,
                                  h.remaining_position),
                              "twap", None, FALSE))
    ELSE None

\* Returns [h, signal] with signal Optional
_try_execute_backlog(h, ob_long, ob_short) ==
    IF h.backlog_qty <= 0 THEN [h |-> h, signal |-> None]
    ELSE LET safe_qty == hybrid_calculate_safe_qty(h, h.backlog_qty, ob_long, ob_short)
         IN  IF safe_qty > 0
             THEN LET execute_qty == Min(safe_qty, h.backlog_qty)
                  IN  [h      |-> [h EXCEPT !.backlog_qty = @ - execute_qty],
                       signal |-> Some(ExecutionSignal(TRUE, execute_qty, "backlog", None, FALSE))]
             ELSE [h |-> h, signal |-> None]

\* Returns [h, signal]
_moderate_with_vwap(h, signal, ob_long, ob_short) ==
    IF ~signal.should_execute \/ signal.qty <= 0 THEN [h |-> h, signal |-> signal]
    ELSE LET safe_qty == hybrid_calculate_safe_qty(h, signal.qty, ob_long, ob_short)
         IN  IF safe_qty < signal.qty
             THEN [h      |-> [h EXCEPT !.backlog_qty = @ + (signal.qty - safe_qty)],
                   signal |-> ExecutionSignal(safe_qty > 0, safe_qty, signal.trigger_type,
                                              signal.level_index, TRUE)]
             ELSE [h |-> h, signal |-> signal]

\* Returns [h, signal]
hybrid_update(h, current_spread, ob_long, ob_short, t) ==
    IF h.state # "executing" THEN [h |-> h, signal |-> NoSignal]
    ELSE IF h.remaining_position <= 0
    THEN [h |-> [h EXCEPT !.state = "completed"], signal |-> NoSignal]
    ELSE LET h0 == [h EXCEPT !.last_spread = current_spread]
             b  == _try_execute_backlog(h0, ob_long, ob_short)
         IN  IF b.signal # None
             THEN [h |-> b.h, signal |-> Get(b.signal)]
             ELSE LET g == _check_grid_trigger(h0, current_spread)
                  IN  IF g.signal # None
                      THEN _moderate_with_vwap(g.h, Get(g.signal), ob_long, ob_short)
                      ELSE LET w == _check_twap_trigger(h0, current_spread, t)
                           IN  IF w # None
                               THEN _moderate_with_vwap(h0, Get(w), ob_long, ob_short)
                               ELSE [h |-> h0, signal |-> NoSignal]

hybrid_record_execution(h, qty, success, t) ==
    IF success /\ qty > 0
    THEN LET h1 == [h EXCEPT
                      !.remaining_position  = @ - qty,
                      !.total_executed      = @ + qty,
                      !.last_execution_time = t]
         IN  IF h1.remaining_position <= 0
             THEN [h1 EXCEPT !.state = "completed"]
             ELSE h1
    ELSE h

hybrid_reset(h) ==
    [h EXCEPT
       !.state              = "idle",
       !.initial_position   = 0,
       !.remaining_position = 0,
       !.side               = "",
       !.backlog_qty        = 0,
       !.total_executed     = 0,
       !.grid_levels        = [k \in 1..Len(@) |-> [@[k] EXCEPT !.triggered = FALSE]]]

----------------------------------------------------------------------------
(* ConnectionManager (src/src/api/server.py)                               *)

\* asyncio.Queue(): maxsize = 0, no capacity
ConnectionManager ==
    [maxsize |-> 0, queue |-> <<>>]

\* put_nowait raises QueueFull, which queue_broadcast swallows, only when
\* maxsize > 0 and the queue holds maxsize items
queue_broadcast(c, message) ==
    IF c.maxsize > 0 /\ Len(c.queue) >= c.maxsize THEN c
    ELSE [c EXCEPT !.queue = Append(@, message)]

\* start_broadcaster: one get() and broadcast()
start_broadcaster_step(c) ==
    [c EXCEPT !.queue = Tail(@)]

----------------------------------------------------------------------------
(* The callers' inputs                                                     *)

Spreads == {25, 50, 75, 100}
BookPairs == {<<BookThin, BookDeep>>, <<BookDeep, BookThin>>, <<BookThin, BookEmpty>>}

\* entry_start_pct = 0.5 %, entry_full_pct = 1.0 %, max_slippage_pct = 0.05 %
EntryConfigsOf(targets, delays, validities) ==
    {EntryConfig(50, 100, tg, 5, d, v) : tg \in targets, d \in delays, v \in validities}

ExitConfigsOf(delays, validities) ==
    {None} \cup {Some(ExitConfigOf(5, d, v)) : d \in delays, v \in validities}

----------------------------------------------------------------------------
(* The manager's methods as actions                                        *)

\* A bot object that was built and never started.
BotIdle == SingleBot(BotConfig(50, 3000, TRUE, 5, None))

InitWith(analyzers) ==
    /\ mgr \in {ManagerInit(a) : a \in analyzers}
    /\ now = 1
    /\ last_op = "init"
    /\ last_result = None
    /\ upd_below_ms = None
    /\ fired_sum = 0
    /\ val = SignalValidator(ValidatorDefaultMinValidityMs)
    /\ bot = BotIdle
    /\ intensities = {}
    /\ bm = BotManagerInit
    /\ cm = ConnectionManager
    /\ an = None
    /\ hm = None

TickTo(max_time) ==
    /\ now < max_time
    /\ now' = now + 1
    /\ UNCHANGED <<mgr, last_op, last_result, upd_below_ms, fired_sum, val, bot, intensities, bm, cm, an, hm>>

StartEntry(configs) ==
    \E config \in configs :
        /\ mgr' = start_entry(mgr, config)
        /\ last_op' = "start_entry"
        /\ last_result' = None
        /\ upd_below_ms' = None
        /\ fired_sum' = 0
        /\ UNCHANGED <<now, val, bot, intensities, bm, cm, an, hm>>

StartExit(sizes, configs) ==
    \E position_size \in sizes, config \in configs :
        /\ mgr' = start_exit(mgr, position_size, config)
        /\ last_op' = "start_exit"
        /\ last_result' = None
        /\ upd_below_ms' = None
        /\ fired_sum' = 0
        /\ UNCHANGED <<now, val, bot, intensities, bm, cm, an, hm>>

UpdateEntryConfig(configs) ==
    \E config \in configs :
        /\ mgr' = update_entry_config(mgr, config)
        /\ last_op' = "update_entry_config"
        /\ last_result' = None
        /\ UNCHANGED <<now, upd_below_ms, fired_sum, val, bot, intensities, bm, cm, an, hm>>

Update ==
    \E spread \in Spreads, obs \in BookPairs :
        LET r == update(mgr, spread, obs[1], obs[2], now)
        IN  /\ mgr' = r.m
            /\ last_result' = r.result
            /\ last_op' = "update"
            /\ upd_below_ms' =
                 IF /\ mgr.mode = "entry"
                    /\ mgr.entry_config # None
                    /\ spread < Get(mgr.entry_config).entry_start_pct
                 THEN Some(now)
                 ELSE upd_below_ms
            /\ UNCHANGED <<now, fired_sum, val, bot, intensities, bm, cm, an, hm>>

RecordExecution(qtys) ==
    \E qty \in qtys, success \in BOOLEAN :
        /\ Len(mgr.executions) < MaxExec
        /\ mgr' = record_execution(mgr, qty, success, now)
        /\ last_op' = "record_execution"
        /\ last_result' = None
        /\ fired_sum' = IF success /\ qty > 0 THEN fired_sum + qty ELSE fired_sum
        /\ UNCHANGED <<now, upd_below_ms, val, bot, intensities, bm, cm, an, hm>>

Reset ==
    /\ mgr' = reset(mgr)
    /\ last_op' = "reset"
    /\ last_result' = None
    /\ upd_below_ms' = None
    /\ fired_sum' = 0
    /\ UNCHANGED <<now, val, bot, intensities, bm, cm, an, hm>>

----------------------------------------------------------------------------
(* Spec: any caller, any order of the public methods                       *)

MaxTimeApi == 2
ApiEntryConfigs == EntryConfigsOf({1000, 3000}, {1}, {0})
ApiExitConfigs == {Some(ExitConfigOf(5, 1, 0))}

Init == InitWith(BOOLEAN)

Next ==
    \/ TickTo(MaxTimeApi)
    \/ StartEntry(ApiEntryConfigs)
    \/ StartExit({0, 2000}, ApiExitConfigs)
    \/ UpdateEntryConfig(ApiEntryConfigs)
    \/ Update
    \/ RecordExecution({-1000, 0, 1000, 2000})
    \/ Reset

Spec == Init /\ [][Next]_vars

----------------------------------------------------------------------------
(* SpecDriver: the caller records an execution only for the slice that the *)
(* immediately preceding update() returned (time may pass in between)      *)

DriverEntryConfigs == EntryConfigsOf({3000}, {1, 2}, {0, 2})
DriverExitConfigs == ExitConfigsOf({1}, {0})

DriverRecord ==
    /\ last_op = "update"
    /\ last_result # None
    /\ Get(last_result).should_execute
    /\ Len(mgr.executions) < MaxExec
    /\ \E success \in BOOLEAN :
         LET qty == Get(last_result).size
         IN  /\ mgr' = record_execution(mgr, qty, success, now)
             /\ fired_sum' = IF success /\ qty > 0 THEN fired_sum + qty ELSE fired_sum
    /\ last_op' = "record_execution"
    /\ last_result' = None
    /\ UNCHANGED <<now, upd_below_ms, val, bot, intensities, bm, cm, an, hm>>

NextDriver ==
    \/ TickTo(MaxTime)
    \/ StartEntry(DriverEntryConfigs)
    \/ StartExit({2000}, DriverExitConfigs)
    \/ UpdateEntryConfig(DriverEntryConfigs)
    \/ Update
    \/ DriverRecord
    \/ Reset

SpecDriver == InitWith({FALSE}) /\ [][NextDriver]_vars

----------------------------------------------------------------------------
(* SpecReload: an ENTRY episode whose refill delay and slippage bound are  *)
(* reloaded while it runs (min_validity_ms = 0), with and without analyzer *)

ReloadEntryConfigs ==
    {EntryConfig(50, 100, 3000, slip, d, 0) : slip \in {0, 5}, d \in {1, 2}}

NextReload ==
    \/ TickTo(MaxTime)
    \/ StartEntry(ReloadEntryConfigs)
    \/ UpdateEntryConfig(ReloadEntryConfigs)
    \/ Update
    \/ DriverRecord

SpecReload == InitWith(BOOLEAN) /\ [][NextReload]_vars

----------------------------------------------------------------------------
(* SpecInvalidReload: update_entry_config called with configurations whose *)
(* fields are out of range                                                 *)

ReloadValidConfigs == {EntryConfig(50, 100, 3000, 5, 1, 0)}

\* entry_full_pct < entry_start_pct; target_amount <= 0; max_slippage_pct <= 0
InvalidEntryConfigs ==
    {EntryConfig(100, 50, 3000, 5, 2, 1),
     EntryConfig(50, 100, 0, 5, 2, 1),
     EntryConfig(50, 100, 3000, 0, 2, 1)}

NextInvalidReload ==
    \/ TickTo(MaxTimeApi)
    \/ StartEntry(ReloadValidConfigs)
    \/ UpdateEntryConfig(InvalidEntryConfigs)
    \/ Update
    \/ DriverRecord

SpecInvalidReload == InitWith({FALSE}) /\ [][NextInvalidReload]_vars

----------------------------------------------------------------------------
(* SpecExitReload: update_entry_config called while an exit episode runs   *)

ExitReloadExitConfigs == {None, Some(ExitConfigOf(5, 2, 1))}
ExitReloadEntryConfigs == EntryConfigsOf({3000}, {1}, {0})

NextExitReload ==
    \/ TickTo(MaxTimeApi)
    \/ StartExit({2000}, ExitReloadExitConfigs)
    \/ UpdateEntryConfig(ExitReloadEntryConfigs)
    \/ Update
    \/ DriverRecord

SpecExitReload == InitWith({FALSE}) /\ [][NextExitReload]_vars

----------------------------------------------------------------------------
(* SpecIntensity: _calculate_entry_intensity called on a manager whose     *)
(* entry configuration has 0 < entry_start_pct <= entry_full_pct           *)

IntensityStarts == {25, 50, 100}
IntensityFulls == {50, 100}
IntensitySpreads == {0, 25, 40, 50, 75, 100, 150}

IntensityConfigs ==
    {EntryConfig(sf[1], sf[2], 3000, 5, 1, 0) :
       sf \in {p \in IntensityStarts \X IntensityFulls : p[1] <= p[2]}}

InitIntensity ==
    /\ mgr \in {start_entry(ManagerInit(FALSE), config) : config \in IntensityConfigs}
    /\ now = 1
    /\ last_op = "start_entry"
    /\ last_result = None
    /\ upd_below_ms = None
    /\ fired_sum = 0
    /\ val = SignalValidator(ValidatorDefaultMinValidityMs)
    /\ bot = BotIdle
    /\ intensities = {}
    /\ bm = BotManagerInit
    /\ cm = ConnectionManager
    /\ an = None
    /\ hm = None

Intensity ==
    \E spread \in IntensitySpreads :
        /\ intensities' = intensities \cup {<<spread, _calculate_entry_intensity(mgr, spread)>>}
        /\ last_op' = "_calculate_entry_intensity"
        /\ UNCHANGED <<mgr, now, last_result, upd_below_ms, fired_sum, val, bot, bm, cm, an, hm>>

NextIntensity == Intensity

SpecIntensity == InitIntensity /\ [][NextIntensity]_vars

----------------------------------------------------------------------------
(* The manager's requests, the driver tasks' steps and the feeds as actions *)

MaxPushes == 2       \* at most MaxPushes push callbacks per bot
MaxPolls == 2        \* at most MaxPolls polls per bot
MaxReconnects == 3   \* at most MaxReconnects failed reconnect attempts in a row

OthersUnchanged ==
    UNCHANGED <<mgr, now, last_op, last_result, upd_below_ms, fired_sum, val, bot,
                intensities, cm, an, hm>>

CreateBot(ids) ==
    \E i \in ids :
        /\ bm.calls[i].pc = "idle"
        /\ bm' = create_bot(bm, i)
        /\ OthersUnchanged

AdapterInitialized ==
    \E i \in BotIds, success \in BOOLEAN :
        /\ bm.calls[i].pc \in {"init_a", "init_b"}
        /\ bm' = get_adapter_initialized(bm, i, success)
        /\ OthersUnchanged

\* The request names the bot id that create_bot returned: the task created
\* by create_bot has taken its first step by then.
StopBot ==
    \E i \in BotIds :
        /\ bm.bots[i].created
        /\ ~bm.bots[i].stopped
        /\ bm.bots[i].pc # "run"
        /\ bm' = stop_bot(bm, i)
        /\ OthersUnchanged

RunStart ==
    \E i \in BotIds :
        /\ bm.bots[i].pc = "run"
        /\ bm' = run_websocket_start(bm, i)
        /\ OthersUnchanged

ConnectedA ==
    \E i \in BotIds, ok \in BOOLEAN :
        /\ bm.bots[i].pc = "connect_a"
        /\ bm' = run_websocket_connected_a(bm, i, ok)
        /\ OthersUnchanged

ConnectedB ==
    \E i \in BotIds, ok \in BOOLEAN :
        /\ bm.bots[i].pc = "connect_b"
        /\ bm' = run_websocket_connected_b(bm, i, ok)
        /\ OthersUnchanged

WsLoopReconnect(max_failed) ==
    \E i \in BotIds, ok_a \in BOOLEAN, ok_b \in BOOLEAN :
        /\ bm.bots[i].pc = "ws_loop"
        /\ bm.bots[i].running
        /\ ~FeedsConnected(bm, i)
        /\ bm.bots[i].failed_reconnects < max_failed
        /\ bm' = run_websocket_reconnect(bm, i, ok_a, ok_b)
        /\ OthersUnchanged

\* `while self.running` ends, in run_websocket or in the run_polling it fell
\* back to: the `finally` of run_websocket runs
RunCleanup ==
    \E i \in BotIds :
        /\ bm.bots[i].pc \in {"ws_loop", "polling"}
        /\ ~bm.bots[i].running
        /\ bm' = IF bm.bots[i].config.use_websocket
                 THEN run_websocket_cleanup(bm, i)
                 ELSE [bm EXCEPT !.bots[i].pc = "done"]
        /\ OthersUnchanged

PollingIteration ==
    \E i \in BotIds :
        /\ bm.bots[i].pc = "polling"
        /\ bm.bots[i].running
        /\ now >= bm.bots[i].wake_ms
        /\ bm.bots[i].polls < MaxPolls
        /\ bm' = run_polling_iteration(bm, i, now)
        /\ OthersUnchanged

AdapterPush(max_pushes) ==
    \E k \in 1..Len(bm.objs) :
        /\ bm.objs[k].ws_task
        /\ bm.objs[k].subscribed
        /\ bm.objs[k].callback # None
        /\ bm.bots[Get(bm.objs[k].callback)].ws_updates < max_pushes
        /\ \E symbol \in bm.objs[k].symbols : bm' = adapter_push(bm, k, symbol)
        /\ OthersUnchanged

AdapterFeedEnds ==
    \E k \in 1..Len(bm.objs) :
        /\ bm.objs[k].ws_task
        /\ bm' = [bm EXCEPT !.objs[k] = _handle_ws_messages_ends(@)]
        /\ OthersUnchanged

\* POST /api/bots/{bot_id}/start.  A created task takes its first step before
\* the event loop serves a later request; the model follows at most two
\* tasks of a bot.
StartBot ==
    \E i \in BotIds :
        /\ bm.bots[i].created
        /\ ~bm.bots[i].running
        /\ bm.bots[i].pc # "run"
        /\ bm.bots[i].prev_pc = None \/ bm.bots[i].pc = "done"
        /\ bm' = start_bot(bm, i)
        /\ OthersUnchanged

RemoveBot ==
    \E i \in BotIds :
        /\ bm.bots[i].created
        /\ bm' = remove_bot(bm, i)
        /\ OthersUnchanged

PrevPollingIteration ==
    \E i \in BotIds :
        /\ bm.bots[i].prev_pc = Some("polling")
        /\ bm.bots[i].running
        /\ now >= bm.bots[i].prev_wake_ms
        /\ bm.bots[i].polls < MaxPolls
        /\ bm' = prev_run_polling_iteration(bm, i, now)
        /\ OthersUnchanged

PrevRunEnds ==
    \E i \in BotIds :
        /\ bm.bots[i].prev_pc = Some("polling")
        /\ ~bm.bots[i].running
        /\ bm' = prev_run_ends(bm, i)
        /\ OthersUnchanged

----------------------------------------------------------------------------
(* SpecRestart: two REST-mode bots on one symbol and the same two venues,  *)
(* created, stopped, restarted through the API and removed                 *)

RestConfig ==
    [symbol           |-> "ETH-USD",
     exchange_a       |-> "lighter",
     exchange_b       |-> "extended",
     poll_interval_ms |-> 1,
     use_websocket    |-> FALSE]

InitRestart ==
    /\ mgr = ManagerInit(FALSE)
    /\ now = 1
    /\ last_op = "init"
    /\ last_result = None
    /\ upd_below_ms = None
    /\ fired_sum = 0
    /\ val = SignalValidator(ValidatorDefaultMinValidityMs)
    /\ bot = BotIdle
    /\ intensities = {}
    /\ bm = [BotManagerInit EXCEPT
               !.bots = [i \in BotIds |-> [ManagedBot(i) EXCEPT !.config = RestConfig]]]
    /\ cm = ConnectionManager
    /\ an = None
    /\ hm = None

NextRestart ==
    \/ CreateBot(BotIds)
    \/ AdapterInitialized
    \/ StopBot
    \/ StartBot
    \/ RemoveBot
    \/ RunStart
    \/ RunCleanup
    \/ PollingIteration
    \/ PrevPollingIteration
    \/ PrevRunEnds

SpecRestart == InitRestart /\ [][NextRestart]_vars

----------------------------------------------------------------------------
(* SpecManager: two create_bot requests for the same two venues, their     *)
(* bots' driver tasks, the adapters' feeds and stop_bot                    *)

NextManager ==
    \/ CreateBot(BotIds)
    \/ AdapterInitialized
    \/ StopBot
    \/ RunStart
    \/ ConnectedA
    \/ ConnectedB
    \/ WsLoopReconnect(1)
    \/ RunCleanup
    \/ PollingIteration
    \/ AdapterPush(1)

SpecManager == InitWith({FALSE}) /\ [][NextManager]_vars

----------------------------------------------------------------------------
(* SpecPush: one bot in push mode, its feeds dropping and reconnecting     *)

NextPush ==
    \/ TickTo(MaxTimeApi)
    \/ CreateBot({1})
    \/ AdapterInitialized
    \/ StopBot
    \/ RunStart
    \/ ConnectedA
    \/ ConnectedB
    \/ WsLoopReconnect(MaxReconnects)
    \/ RunCleanup
    \/ PollingIteration
    \/ AdapterPush(MaxPushes)
    \/ AdapterFeedEnds

SpecPush == InitWith({FALSE}) /\ [][NextPush]_vars

----------------------------------------------------------------------------
(* SpecValidator: a SignalValidator object called with a fixed threshold   *)

ValidatorThreshold == 50    \* 0.5 %, the default entry_start_pct
ValidatorValidities == {1, 2, 3}

InitValidator ==
    /\ mgr = ManagerInit(FALSE)
    /\ now = 1
    /\ last_op = "init"
    /\ last_result = None
    /\ upd_below_ms = None
    /\ fired_sum = 0
    /\ val \in {SignalValidator(mv) : mv \in ValidatorValidities}
    /\ bot = BotIdle
    /\ intensities = {}
    /\ bm = BotManagerInit
    /\ cm = ConnectionManager
    /\ an = None
    /\ hm = None

ValRecord ==
    \E spread \in Spreads :
        /\ val' = record(val, spread, ValidatorThreshold, now)
        /\ last_op' = "record"
        /\ UNCHANGED <<mgr, now, last_result, upd_below_ms, fired_sum, bot, intensities, bm, cm, an, hm>>

ValUpdateConfig ==
    \E mv \in ValidatorValidities :
        /\ val' = update_config(val, mv)
        /\ last_op' = "update_config"
        /\ UNCHANGED <<mgr, now, last_result, upd_below_ms, fired_sum, bot, intensities, bm, cm, an, hm>>

ValReset ==
    /\ val' = validator_reset(val)
    /\ last_op' = "reset"
    /\ UNCHANGED <<mgr, now, last_result, upd_below_ms, fired_sum, bot, intensities, bm, cm, an, hm>>

NextValidator ==
    \/ TickTo(MaxTime)
    \/ ValRecord
    \/ ValUpdateConfig
    \/ ValReset

SpecValidator == InitValidator /\ [][NextValidator]_vars

----------------------------------------------------------------------------
(* SpecBot: a bot created by BotManager.create_bot (adapters set, running), *)
(* driven by its polling loop or by the adapters' push callbacks           *)

MaxTicks == 3       \* at most MaxTicks polls and push callbacks

BookFar ==
    [exchange |-> "b", symbol |-> "ETH",
     bids |-> <<Level(10040, 10000)>>, asks |-> <<Level(10050, 10000)>>]

BotBooksA == {BookThin, BookEmpty}
BotBooksB == {BookDeep, BookFar}

BotConfigs ==
    {BotConfig(50, 3000, dry_run, 5, mps) :
        dry_run \in BOOLEAN, mps \in {None, Some(2000)}}

InitBot ==
    /\ mgr = ManagerInit(TRUE)
    /\ now = 1
    /\ last_op = "init"
    /\ last_result = None
    /\ upd_below_ms = None
    /\ fired_sum = 0
    /\ val = SignalValidator(ValidatorDefaultMinValidityMs)
    /\ bot \in {[SingleBot(c) EXCEPT !.adapters = TRUE, !.running = TRUE, !.ws_mode = w] :
                  c \in BotConfigs, w \in BOOLEAN}
    /\ intensities = {}
    /\ bm = BotManagerInit
    /\ cm = ConnectionManager
    /\ an = None
    /\ hm = None

BotTicks == bot.stats.polls + bot.stats.ws_updates

\* run_polling awaits asyncio.sleep() after each poll(): a task that the poll
\* created runs, to its end (_execute_trade awaits nothing), before the loop
\* resumes.  The push callbacks are plain calls made by the two adapters'
\* message handlers, which may run one after the other before a created task.
BotPoll ==
    /\ bot.running
    /\ ~bot.ws_mode
    /\ bot.tasks = 0
    /\ BotTicks < MaxTicks
    /\ \E fetched_a \in {None} \cup {Some(ob) : ob \in BotBooksA},
          fetched_b \in {None} \cup {Some(ob) : ob \in BotBooksB},
          fetch_raises \in BOOLEAN :
          bot' = poll(bot, fetched_a, fetched_b, fetch_raises, now)
    /\ UNCHANGED <<mgr, now, last_op, last_result, upd_below_ms, fired_sum, val, intensities, bm, cm, an, hm>>

BotPush ==
    /\ bot.running
    /\ bot.ws_mode
    /\ BotTicks < MaxTicks
    /\ \E orderbook \in BotBooksA \cup BotBooksB :
          bot' = _on_orderbook_update(bot, orderbook, now)
    /\ UNCHANGED <<mgr, now, last_op, last_result, upd_below_ms, fired_sum, val, intensities, bm, cm, an, hm>>

BotExecuteTrade ==
    /\ bot.tasks > 0
    /\ bot' = _execute_trade(bot)
    /\ UNCHANGED <<mgr, now, last_op, last_result, upd_below_ms, fired_sum, val, intensities, bm, cm, an, hm>>

\* BotManager.stop_bot, and start_bot of the API server
BotStop ==
    /\ bot.running
    /\ bot' = [bot EXCEPT !.running = FALSE]
    /\ UNCHANGED <<mgr, now, last_op, last_result, upd_below_ms, fired_sum, val, intensities, bm, cm, an, hm>>

BotStart ==
    /\ ~bot.running
    /\ bot' = [bot EXCEPT !.running = TRUE]
    /\ UNCHANGED <<mgr, now, last_op, last_result, upd_below_ms, fired_sum, val, intensities, bm, cm, an, hm>>

\* Neither feed delivers a message for longer than five poll intervals: the
\* push callback runs only when a venue sends, the clock runs regardless.
BotFeedSilent ==
    /\ now <= MaxTimeApi
    /\ now' = now + 5 * bot.config.poll_interval_ms + 1
    /\ UNCHANGED <<mgr, last_op, last_result, upd_below_ms, fired_sum, val, bot, intensities, bm, cm, an, hm>>

NextBot ==
    \/ TickTo(MaxTimeApi)
    \/ BotFeedSilent
    \/ BotPoll
    \/ BotPush
    \/ BotExecuteTrade
    \/ BotStop
    \/ BotStart

SpecBot == InitBot /\ [][NextBot]_vars

----------------------------------------------------------------------------
(* SpecAnalyzer: the methods of OrderbookAnalyzer and Orderbook called on  *)
(* books whose asks ascend and whose bids descend                          *)

SidesNone == [bids |-> <<>>, asks |-> <<>>]
SidesLow ==
    [bids |-> <<Level(9990, 2000), Level(9970, 3000)>>,
     asks |-> <<Level(10000, 2000), Level(10030, 3000)>>]
SidesMid ==
    [bids |-> <<Level(10020, 2000), Level(9990, 3000)>>,
     asks |-> <<Level(10030, 2000), Level(10050, 3000)>>]
SidesHigh ==
    [bids |-> <<Level(10100, 4000)>>,
     asks |-> <<Level(10110, 1000), Level(10120, 1000), Level(10140, 2000)>>]

AnalyzerSides == {SidesNone, SidesLow, SidesMid, SidesHigh}

BookOn(exchange, sides) ==
    [exchange |-> exchange, symbol |-> "ETH", bids |-> sides.bids, asks |-> sides.asks]

AnalyzerSizes == {0, 1000, 2000, 3000, 5000, 6000}
AnalyzerFees == {0, 5}

AnalyzerCall(op, analyzer, ob_a, ob_b, size, result) ==
    Some([op |-> op, analyzer |-> analyzer, ob_a |-> ob_a, ob_b |-> ob_b,
          size |-> size, result |-> result])

AnalyzerUnchanged ==
    UNCHANGED <<mgr, now, last_op, last_result, upd_below_ms, fired_sum, val, bot,
                intensities, bm, cm, hm>>

\* trade_size = None (the analyzer's default size, here 3000) or a given size
FindBestOpportunity ==
    /\ \E sa \in AnalyzerSides, sb \in AnalyzerSides, fee \in AnalyzerFees,
          trade_size \in {None, Some(1000), Some(5000)} :
          LET analyzer == OrderbookAnalyzer(3000, fee)
              ob_a     == BookOn("a", sa)
              ob_b     == BookOn("b", sb)
          IN  an' = AnalyzerCall("find_best_opportunity", analyzer, ob_a, ob_b, trade_size,
                                 find_best_opportunity(analyzer, ob_a, ob_b, trade_size))
    /\ AnalyzerUnchanged

FindMaxProfitableSize ==
    /\ \E sa \in AnalyzerSides, sb \in AnalyzerSides, fee \in AnalyzerFees :
          LET analyzer == OrderbookAnalyzer(3000, fee)
              ob_a     == BookOn("a", sa)
              ob_b     == BookOn("b", sb)
          IN  an' = AnalyzerCall("_find_max_profitable_size", analyzer, ob_a, ob_b, None,
                                 _find_max_profitable_size_trace(analyzer, ob_a, ob_b))
    /\ AnalyzerUnchanged

\* estimate_buy_slippage(size) and estimate_sell_slippage(size) of one book
EstimateSlippage ==
    /\ \E sa \in AnalyzerSides, size \in AnalyzerSizes :
          LET ob_a == BookOn("a", sa)
          IN  an' = AnalyzerCall("estimate_slippage", OrderbookAnalyzer(3000, 5), ob_a, ob_a,
                                 Some(size),
                                 [buy  |-> estimate_buy_slippage(ob_a, size),
                                  sell |-> estimate_sell_slippage(ob_a, size)])
    /\ AnalyzerUnchanged

NextAnalyzer ==
    \/ FindBestOpportunity
    \/ FindMaxProfitableSize
    \/ EstimateSlippage

SpecAnalyzer == InitWith({FALSE}) /\ [][NextAnalyzer]_vars

----------------------------------------------------------------------------
(* SpecObserver: the bots' update callbacks post to the API server's       *)
(* broadcast queue, the broadcaster task drains it                         *)

MaxQueued == 6

\* on_bot_update, called synchronously from a bot's tick; the message is
\* named by the id of the bot whose snapshot it carries
OnBotUpdate ==
    /\ Len(cm.queue) < MaxQueued
    /\ \E i \in BotIds : cm' = queue_broadcast(cm, i)
    /\ UNCHANGED <<mgr, now, last_op, last_result, upd_below_ms, fired_sum, val, bot, intensities, bm, an, hm>>

\* one iteration of start_broadcaster whose get() returned a message
Broadcaster ==
    /\ cm.queue # <<>>
    /\ cm' = start_broadcaster_step(cm)
    /\ UNCHANGED <<mgr, now, last_op, last_result, upd_below_ms, fired_sum, val, bot, intensities, bm, an, hm>>

NextObserver ==
    \/ OnBotUpdate
    \/ Broadcaster

SpecObserver == InitWith({FALSE}) /\ [][NextObserver]_vars

----------------------------------------------------------------------------
(* One HybridExecutionManager under its callers: the exit supervisor that  *)
(* starts an exit, ticks update() and records every signalled quantity     *)
(* before the next tick, and the API's configure_exit.                     *)

HybridConfigA == ExecutionConfig(20, -100, 2, "equal", 1, 5)
HybridConfigs ==
    {HybridConfigA,
     ExecutionConfig(40, -100, 2, "equal", 1, 5),
     ExecutionConfig(20, -100, 1, "exponential", 1, 5)}
HybridPositions == {1000}
HybridSides == {"long", "short"}
HybridSpreads == {30, -100}
HybridBooks == {BookEmpty, BookDeep}
\* the backlog the supervisor's ticks may build up
MaxBacklog == 1100

\* the fields an ExitConfigRequest provides (None: not provided)
ExitConfigRequests ==
    [grid_start_spread : {None, Some(40)},
     grid_end_spread   : {None},
     grid_levels_count : {None, Some(1)}]

InitHybrid ==
    /\ mgr = ManagerInit(FALSE)
    /\ now = 1
    /\ last_op = "init"
    /\ last_result = None
    /\ upd_below_ms = None
    /\ fired_sum = 0
    /\ val = SignalValidator(ValidatorDefaultMinValidityMs)
    /\ bot = BotIdle
    /\ intensities = {}
    /\ bm = BotManagerInit
    /\ cm = ConnectionManager
    /\ an = None
    /\ \E analyzer \in BOOLEAN : hm = HybridExecutionManager(HybridConfigA, analyzer)

HybridUnchanged ==
    UNCHANGED <<mgr, now, upd_below_ms, fired_sum, val, bot, intensities, bm, cm, an>>

\* update() has returned a signal to execute that is not yet recorded
HybridPending ==
    /\ last_op = "hybrid_update"
    /\ Get(last_result).should_execute

HybridStartExit ==
    \E position_size \in HybridPositions, side \in HybridSides :
        /\ ~HybridPending
        /\ hm.state = "idle"
        /\ hm' = hybrid_start_exit(hm, position_size, side, now)
        /\ last_op' = "hybrid_start_exit"
        /\ last_result' = None
        /\ HybridUnchanged

HybridUpdate ==
    \E current_spread \in HybridSpreads, ob \in HybridBooks :
        LET r == hybrid_update(hm, current_spread, Some(ob), Some(ob), now)
        IN  /\ ~HybridPending
            /\ hm.state = "executing"
            /\ r.h.backlog_qty <= MaxBacklog
            /\ hm' = r.h
            /\ last_op' = "hybrid_update"
            /\ last_result' = Some(r.signal)
            /\ HybridUnchanged

HybridRecordExecution ==
    \E success \in BOOLEAN :
        /\ HybridPending
        /\ hm' = hybrid_record_execution(hm, Get(last_result).qty, success, now)
        /\ last_op' = "hybrid_record_execution"
        /\ UNCHANGED last_result
        /\ HybridUnchanged

HybridUpdateConfig ==
    \E new_config \in HybridConfigs :
        /\ hm' = hybrid_update_config(hm, new_config)
        /\ last_op' = "hybrid_update_config"
        /\ last_result' = None
        /\ HybridUnchanged

\* configure_exit writes the provided fields into the manager's own config
\* object and hands that same object to update_config
ConfigureExit ==
    \E req \in ExitConfigRequests :
        LET c0 == hm.config
            c1 == IF req.grid_start_spread # None
                  THEN [c0 EXCEPT !.grid_start_spread = Get(req.grid_start_spread)] ELSE c0
            c2 == IF req.grid_end_spread # None
                  THEN [c1 EXCEPT !.grid_end_spread = Get(req.grid_end_spread)] ELSE c1
            config == IF req.grid_levels_count # None
                      THEN [c2 EXCEPT !.grid_levels_count = Get(req.grid_levels_count)] ELSE c2
        IN  /\ hm' = hybrid_update_config([hm EXCEPT !.config = config], config)
            /\ last_op' = "configure_exit"
            /\ last_result' = None
            /\ HybridUnchanged

HybridReset ==
    /\ hm.state = "completed"
    /\ hm' = hybrid_reset(hm)
    /\ last_op' = "hybrid_reset"
    /\ last_result' = None
    /\ HybridUnchanged

NextHybrid ==
    \/ TickTo(MaxTimeApi)
    \/ HybridStartExit
    \/ HybridUpdate
    \/ HybridRecordExecution
    \/ HybridUpdateConfig
    \/ ConfigureExit
    \/ HybridReset

SpecHybrid == InitHybrid /\ [][NextHybrid]_vars

----------------------------------------------------------------------------
(* Shorthands of the claims                                                *)

Active(m) == m.mode \in {"entry", "exit"}
ActiveTarget(m) == IF m.mode = "entry" THEN m.target_amount ELSE m.exit_target

RECURSIVE SumQty(_)
SumQty(execs) ==
    IF execs = <<>> THEN 0 ELSE Head(execs).qty + SumQty(Tail(execs))

\* The step is a call of the manager method `op` (TickTo alone moves the clock).
Called(op) == now' = now /\ last_op' = op

----------------------------------------------------------------------------
(* Claims about the manager under any caller (Spec)                        *)

\* C1: in ENTRY or EXIT mode, 0 <= executed_amount <= the active target in
\* every reachable state, whatever qty record_execution is given.
C1_ExecutedWithinTarget ==
    /\ 0 <= mgr.executed_amount
    /\ Active(mgr) => mgr.executed_amount <= ActiveTarget(mgr)

\* C6: executed_amount is the sum of the qty of the recorded executions, and
\* the sum of every qty given to record_execution with success = true and
\* qty > 0 since the last start_entry, start_exit or reset.
C6_ExecutionConservation ==
    /\ mgr.executed_amount = SumQty(mgr.executions)
    /\ mgr.executed_amount = fired_sum

C6_Witness ==
    /\ Len(mgr.executions) >= 2
    /\ mgr.executions[1].qty # mgr.executions[2].qty
    /\ mgr.mode = "entry"

\* C7: in ENTRY or EXIT mode, state = COMPLETED exactly when executed_amount
\* equals the active target.
C7_CompletedIffAtTarget ==
    Active(mgr) =>
        (mgr.state = "completed" <=> mgr.executed_amount = ActiveTarget(mgr))

\* C8: mode = IDLE exactly when state = IDLE.
C8_IdleIffIdle ==
    mgr.mode = "idle" <=> mgr.state = "idle"

\* C9: a successful record_execution that leaves nothing remaining sets state
\* to COMPLETED; an update() called when state is not EXECUTING returns None
\* and changes nothing of the manager; and COMPLETED is left only by
\* start_entry, start_exit or reset.
C9_TargetCompletion ==
    [][ /\ ( /\ Called("record_execution")
             /\ Len(mgr'.executions) > Len(mgr.executions)
             /\ _get_remaining(mgr') <= 0 )
           => mgr'.state = "completed"
        /\ (Called("update") /\ mgr.state # "executing")
           => (mgr' = mgr /\ last_result' = None)
        /\ (mgr.state = "completed" /\ mgr'.state # "completed")
           => (Called("start_entry") \/ Called("start_exit") \/ Called("reset"))
      ]_vars

\* Target 3.0 reached by two recorded slices, then an update() that returned None.
C9_Witness ==
    /\ last_op = "update"
    /\ last_result = None
    /\ mgr.mode = "entry"
    /\ mgr.state = "completed"
    /\ Len(mgr.executions) = 2
    /\ mgr.executed_amount = mgr.target_amount

\* C10: in ENTRY mode update_entry_config leaves executed_amount unchanged,
\* the remaining amount is from then on computed from the new target_amount,
\* and state is COMPLETED on return when the new target is below executed.
C10_HotReloadTarget ==
    [][ (Called("update_entry_config") /\ mgr.mode = "entry")
        => /\ mgr'.executed_amount = mgr.executed_amount
           /\ _get_remaining(mgr')
                = Get(mgr'.entry_config).target_amount - mgr'.executed_amount
           /\ Get(mgr'.entry_config).target_amount < mgr'.executed_amount
                => mgr'.state = "completed"
      ]_vars

\* C13: every SliceResult that update() returns has size <= min(safe_qty_a,
\* safe_qty_b, remaining_target), the entry intensity scaling included, and
\* its capped_by_liquidity is true exactly when the unscaled slice
\* min(safe_qty_a, safe_qty_b, remaining_target) is below remaining_target.
C13_RuleOfTheWeakest ==
    last_result # None
    => LET r == Get(last_result)
           slice == Min3(r.safe_qty_a, r.safe_qty_b, r.remaining_target)
       IN  /\ r.size <= slice
           /\ r.capped_by_liquidity <=> (slice < r.remaining_target)

\* C14: every SliceResult that update() returns with should_execute = true
\* has size > 0, and one of size 0 has should_execute = false.
C14_NoZeroExecutableSlice ==
    last_result # None
    => (Get(last_result).should_execute <=> Get(last_result).size > 0)

\* C17: whatever the state before, start_entry(config) leaves mode ENTRY,
\* state EXECUTING, target = config.target_amount, executed_amount 0, no
\* recorded fire (can_fire() is true) and a fresh validator without
\* valid_since; start_exit does the same with mode EXIT and target =
\* position_size.
FreshEpisode(m, t, min_validity_ms) ==
    /\ m.state = "executing"
    /\ m.executed_amount = 0
    /\ m.last_execution_time_ms = 0
    /\ can_fire(m, t)
    /\ m.slices_executed = 0
    /\ m.executions = <<>>
    /\ m.signal_validator = SignalValidator(min_validity_ms)

C17_FreshEpisodeOnStart ==
    [][ /\ (Called("start_entry")
             => /\ mgr'.mode = "entry"
                /\ mgr'.entry_config # None
                /\ Get(mgr'.entry_config) \in ApiEntryConfigs
                /\ mgr'.target_amount = Get(mgr'.entry_config).target_amount
                /\ _get_remaining(mgr') = Get(mgr'.entry_config).target_amount
                /\ FreshEpisode(mgr', now', Get(mgr'.entry_config).min_validity_ms))
        /\ (Called("start_exit")
             => /\ mgr'.mode = "exit"
                /\ mgr'.exit_config \in ApiExitConfigs
                /\ mgr'.exit_target \in {0, 2000}
                /\ _get_remaining(mgr') = mgr'.exit_target
                /\ FreshEpisode(mgr', now', Get(mgr'.exit_config).min_validity_ms))
      ]_vars

\* start_entry has just been called at time 2 on a manager that ran an EXIT
\* episode before (its exit_target is still there).
C17_Witness ==
    /\ last_op = "start_entry"
    /\ mgr.mode = "entry"
    /\ mgr.state = "executing"
    /\ mgr.exit_target = 2000
    /\ mgr.exit_config # None
    /\ mgr.last_execution_time_ms = 0
    /\ now = 2

\* C19: in EXIT mode, with state EXECUTING, remaining > 0 and can_fire()
\* true, update() returns, whatever the spread, a slice whose safe quantities
\* are those of selling on book A and buying on book B within the exit
\* slippage bound, and whose size is their minimum with the remaining amount,
\* unscaled; the manager, its validator included, is left as it was.
C19_ExitUnconditional ==
    [][ ( /\ Called("update")
          /\ mgr.mode = "exit"
          /\ mgr.state = "executing"
          /\ _get_remaining(mgr) > 0
          /\ can_fire(mgr, now) )
        => /\ last_result' # None
           /\ mgr' = mgr
           /\ LET r   == Get(last_result')
                  bps == (Get(mgr.exit_config).max_slippage_pct * 100) \div 100
              IN  /\ r.remaining_target = _get_remaining(mgr)
                  /\ r.size = Min3(r.safe_qty_a, r.safe_qty_b, r.remaining_target)
                  /\ r.should_execute <=> r.size > 0
                  /\ \E obs \in BookPairs :
                        /\ r.safe_qty_a = _calculate_safe_qty(mgr, obs[1], "sell", bps)
                        /\ r.safe_qty_b = _calculate_safe_qty(mgr, obs[2], "buy", bps)
      ]_vars

\* The second update() of an EXIT episode, after the refill delay, has
\* returned a slice whose two safe quantities come from the analyzer.
C19_Witness ==
    /\ last_op = "update"
    /\ mgr.mode = "exit"
    /\ mgr.state = "executing"
    /\ mgr.analyzer
    /\ Len(mgr.executions) = 1
    /\ now - mgr.last_execution_time_ms >= mgr.current_refill_delay_ms
    /\ last_result # None
    /\ Get(last_result).should_execute
    /\ Get(last_result).remaining_target = 1000
    /\ Get(last_result).safe_qty_a # Get(last_result).safe_qty_b

\* C18: the state changes only along the diagram: IDLE to EXECUTING by
\* start_entry/start_exit, EXECUTING to COMPLETED when executed_amount has
\* reached the target, EXECUTING to and from PAUSED, and any state to IDLE by
\* reset().
C18_PhaseDiagram ==
    [][ mgr'.state # mgr.state
        => \/ /\ mgr.state = "idle" /\ mgr'.state = "executing"
              /\ last_op' \in {"start_entry", "start_exit"}
           \/ /\ mgr.state = "executing" /\ mgr'.state = "completed"
              /\ Active(mgr')
              /\ mgr'.executed_amount >= ActiveTarget(mgr')
           \/ /\ mgr.state = "executing" /\ mgr'.state = "paused"
           \/ /\ mgr.state = "paused" /\ mgr'.state = "executing"
           \/ /\ mgr'.state = "idle" /\ last_op' = "reset"
      ]_vars

\* C38: a record_execution with success = false or qty <= 0 (a call that
\* adds nothing to the amount recorded as fired) changes no field of the
\* manager: executed_amount, the last fire time, slices_executed, the
\* executions and the state stay, and so does the answer of can_fire().
C38_FailedExecutionChangesNothing ==
    [][ (last_op' = "record_execution" /\ now' = now /\ fired_sum' = fired_sum)
          => /\ mgr' = mgr
             /\ can_fire(mgr', now') = can_fire(mgr, now)
      ]_vars

\* the latest call on an executing ENTRY episode was a record_execution, and
\* nothing has been fired since the episode began: the call had success =
\* false or qty <= 0
C38_Witness ==
    /\ last_op = "record_execution"
    /\ mgr.mode = "entry"
    /\ mgr.state = "executing"
    /\ fired_sum = 0
    /\ mgr.executed_amount = 0
    /\ mgr.last_execution_time_ms = 0
    /\ mgr.executions = <<>>
    /\ can_fire(mgr, now)
    /\ now = 2

----------------------------------------------------------------------------
(* Claims about the manager under the disciplined caller (SpecDriver)      *)

Fired == Called("record_execution") /\ Len(mgr'.executions) > Len(mgr.executions)

\* C3: a successful record_execution comes no sooner than the refill delay in
\* force after the previous one of the episode, and update() returns no slice
\* sooner than that.
C3_RefillRespect ==
    [][ /\ (Fired /\ mgr.last_execution_time_ms # 0)
           => now' - mgr.last_execution_time_ms >= mgr.current_refill_delay_ms
        /\ (Called("update") /\ last_result' # None /\ mgr.last_execution_time_ms # 0)
           => now - mgr.last_execution_time_ms >= mgr.current_refill_delay_ms
      ]_vars

\* Two fires of one episode exactly one refill delay of 2 ms apart.
C3_Witness ==
    /\ Len(mgr.executions) = 2
    /\ mgr.current_refill_delay_ms = 2
    /\ mgr.executions[2].timestamp - mgr.executions[1].timestamp = 2

\* The last call was an update() that returned a slice to execute.
ReturnedSlice ==
    last_op = "update" /\ last_result # None /\ Get(last_result).should_execute

\* C4 as claimed: in ENTRY mode update() returns a slice at time t only if
\* no update() of the episode, a tick rejected by the refill gate included,
\* was given a spread below entry_start_pct during the min_validity_ms before
\* t.  (Stated for the window (t - min_validity_ms, t], which the claim's
\* closed window contains.)
C4_DwellOverAllTicks ==
    (ReturnedSlice /\ mgr.mode = "entry")
    => \/ upd_below_ms = None
       \/ Get(upd_below_ms) <= now - mgr.signal_validator.min_validity_ms

\* C4 amended: in ENTRY mode update() returns a slice at time t only if every
\* spread that update() recorded in the validator (a tick that passed the
\* state, remaining and refill gates) during (t - min_validity_ms, t] was
\* >= the entry_start_pct of that tick.
C4_DwellOverRecordedTicks ==
    (ReturnedSlice /\ mgr.mode = "entry")
    => \/ mgr.signal_validator.last_below_ms = None
       \/ Get(mgr.signal_validator.last_below_ms)
            <= now - mgr.signal_validator.min_validity_ms

\* A slice returned after a recorded dip and a full dwell of 2 ms.
C4_Witness ==
    /\ last_op = "update"
    /\ last_result # None
    /\ Get(last_result).should_execute
    /\ mgr.mode = "entry"
    /\ mgr.signal_validator.min_validity_ms = 2
    /\ mgr.signal_validator.last_below_ms # None
    /\ mgr.signal_validator.valid_since # None
    /\ Get(mgr.signal_validator.valid_since) = now - 2

\* C11: update_entry_config gives the validator the new min_validity_ms and
\* leaves its valid_since (and what it recorded) as it was.
C11_ReloadKeepsClock ==
    [][ Called("update_entry_config")
        => /\ mgr'.signal_validator.min_validity_ms
                = Get(mgr'.entry_config).min_validity_ms
           /\ mgr'.signal_validator.valid_since = mgr.signal_validator.valid_since
           /\ mgr'.signal_validator.last_below_ms = mgr.signal_validator.last_below_ms
      ]_vars

\* A reload to min_validity_ms = 2 of a signal valid since s that fired at s
\* (so under min_validity_ms = 0), still counted from s.
C11_Witness ==
    /\ last_op = "update_entry_config"
    /\ mgr.mode = "entry"
    /\ mgr.signal_validator.min_validity_ms = 2
    /\ mgr.signal_validator.valid_since # None
    /\ Len(mgr.executions) >= 1
    /\ mgr.executions[1].timestamp = Get(mgr.signal_validator.valid_since)
    /\ now > Get(mgr.signal_validator.valid_since)

----------------------------------------------------------------------------
(* Claims about a reloaded ENTRY episode (SpecReload)                      *)

\* The refill gate as the entry config in force decides it.
GateOpenBy(m, cfg, t) ==
    m.last_execution_time_ms = 0 \/ t - m.last_execution_time_ms >= cfg.refill_delay_ms

\* C12: in ENTRY mode every update() is gated by the refill_delay_ms of the
\* entry config in force (the last one given), and the safe quantities of the
\* result it returns are those of the max_slippage_pct of that config.
C12_ReloadTakesEffect ==
    [][ ( /\ Called("update")
          /\ mgr.mode = "entry"
          /\ mgr.state = "executing"
          /\ mgr.entry_config # None
          /\ _get_remaining(mgr) > 0 )
        => LET cfg == Get(mgr.entry_config)
               bps == (cfg.max_slippage_pct * 100) \div 100
           IN  /\ ~GateOpenBy(mgr, cfg, now)
                  => (last_result' = None /\ mgr' = mgr)
               /\ GateOpenBy(mgr, cfg, now)
                  => \/ last_result' # None
                     \/ mgr'.signal_validator.valid_since = None
               /\ last_result' # None
                  => \E obs \in BookPairs :
                        /\ Get(last_result').safe_qty_a
                             = _calculate_safe_qty(mgr, obs[1], "buy", bps)
                        /\ Get(last_result').safe_qty_b
                             = _calculate_safe_qty(mgr, obs[2], "sell", bps)
      ]_vars

\* Two fires 2 ms apart, then a slice returned 1 ms after the second fire
\* under a refill delay of 1 ms and a slippage bound of 0.
C12_Witness ==
    /\ last_op = "update"
    /\ last_result # None
    /\ Get(last_result).should_execute
    /\ mgr.analyzer
    /\ Len(mgr.executions) = 2
    /\ mgr.executions[2].timestamp - mgr.executions[1].timestamp = 2
    /\ now - mgr.last_execution_time_ms = 1
    /\ Get(mgr.entry_config).refill_delay_ms = 1
    /\ Get(mgr.entry_config).max_slippage_pct = 0

----------------------------------------------------------------------------
(* Claims about the entry intensity (SpecIntensity)                        *)

C16_IntensityFloor ==
    LET start == Get(mgr.entry_config).entry_start_pct
        full  == Get(mgr.entry_config).entry_full_pct
    IN  \A p \in intensities :
            /\ (start < full /\ p[1] = start) => p[2] = 100
            /\ (start = 50 /\ full = 100)
                 => /\ p[1] = 50  => p[2] = 100
                    /\ p[1] = 75  => p[2] = 550
                    /\ p[1] = 100 => p[2] = 1000
                    /\ p[1] = 150 => p[2] = 1000

----------------------------------------------------------------------------
(* Claims about the validator (SpecValidator)                              *)

\* C5 as claimed: when is_valid() is true at time t, no sample recorded in
\* [t - min_validity_ms, t] was below the threshold.
C5_DwellClosedWindow ==
    is_valid(val, now)
    => \/ val.last_below_ms = None
       \/ Get(val.last_below_ms) < now - val.min_validity_ms

\* C5 amended: when is_valid() is true at time t, no sample recorded in
\* (t - min_validity_ms, t] was below the threshold.
C5_DwellHalfOpenWindow ==
    is_valid(val, now)
    => \/ val.last_below_ms = None
       \/ Get(val.last_below_ms) <= now - val.min_validity_ms

\* is_valid() is true after a sample below the threshold and a dwell above it.
C5_Witness ==
    /\ is_valid(val, now)
    /\ val.last_below_ms # None
    /\ val.min_validity_ms >= 2
    /\ Get(val.valid_since) > Get(val.last_below_ms)

----------------------------------------------------------------------------
(* Claims about the bot's ticks (SpecBot)                                  *)

BotTick ==
    \/ bot'.stats.polls > bot.stats.polls
    \/ bot'.stats.ws_updates > bot.stats.ws_updates

BookUsable(b, book, book_ms, t) ==
    /\ book # None
    /\ Get(book).bids # <<>>
    /\ Get(book).asks # <<>>
    /\ t - book_ms <= 5 * b.config.poll_interval_ms

BooksUsable(b, t) ==
    /\ BookUsable(b, b.orderbooks.exchange_a, b.book_ms.exchange_a, t)
    /\ BookUsable(b, b.orderbooks.exchange_b, b.book_ms.exchange_b, t)

\* C27: a tick counts an opportunity, counts a trade or creates an execution
\* task only if both cached books are usable (both sides present, not older
\* than 5 * poll_interval_ms); a tick on an unusable book leaves the
\* opportunity counters and the error counter as they were.
C27_NoStaleBook ==
    [][ BotTick =>
          /\ (\/ bot'.stats.opportunities > bot.stats.opportunities
              \/ bot'.stats.profitable_opportunities > bot.stats.profitable_opportunities
              \/ bot'.stats.trades > bot.stats.trades
              \/ bot'.tasks > bot.tasks)
                => BooksUsable(bot', now)
          /\ (bot'.orderbooks.exchange_a # None /\ bot'.orderbooks.exchange_b # None
                /\ ~BooksUsable(bot', now))
                => bot'.stats.errors = bot.stats.errors
      ]_vars

\* C29: while dry_run is true no execution task is ever started (the only
\* place the bot would submit orders from), and every tick that accepts an
\* opportunity (net spread >= entry_start_pct, counted in
\* profitable_opportunities) adds exactly one to trades, every other step none.
C29_DryRunNeverExecutes ==
    [][ bot.config.dry_run =>
          /\ bot'.tasks = 0
          /\ bot'.stats.trades - bot.stats.trades
               = bot'.stats.profitable_opportunities - bot.stats.profitable_opportunities
          /\ bot'.stats.trades - bot.stats.trades \in {0, 1}
      ]_vars

C29_Witness ==
    /\ bot.config.dry_run
    /\ bot.config.max_position_size # None
    /\ bot.stats.trades = 2
    /\ bot.stats.profitable_opportunities = 2
    /\ bot.stats.opportunities = 3
    /\ bot.tasks = 0

\* C26: a poll() one of whose get_orderbook calls returns None or raises
\* counts one error and nothing else but the poll itself: the cached books,
\* opportunities, profitable_opportunities, trades, the created tasks and
\* running are as before, and poll() returns normally to its loop.
C26_TransientFetchError ==
    bot.adapters
    => \A fetched_a \in {None} \cup {Some(ob) : ob \in BotBooksA},
          fetched_b \in {None} \cup {Some(ob) : ob \in BotBooksB},
          fetch_raises \in BOOLEAN :
          (fetch_raises \/ fetched_a = None \/ fetched_b = None)
          => LET b2 == poll(bot, fetched_a, fetched_b, fetch_raises, now)
             IN  /\ b2.stats.errors = bot.stats.errors + 1
                 /\ b2.stats.polls = bot.stats.polls + 1
                 /\ b2.orderbooks = bot.orderbooks
                 /\ b2.stats.opportunities = bot.stats.opportunities
                 /\ b2.stats.profitable_opportunities = bot.stats.profitable_opportunities
                 /\ b2.stats.trades = bot.stats.trades
                 /\ b2.tasks = bot.tasks
                 /\ b2.running = bot.running

\* Two polls of a running bot: one found an opportunity, the other failed to
\* fetch and left the cached books in place.
C26_Witness ==
    /\ bot.running
    /\ ~bot.ws_mode
    /\ bot.config.max_position_size # None
    /\ bot.stats.polls = 2
    /\ bot.stats.errors = 1
    /\ bot.stats.opportunities = 1
    /\ bot.orderbooks.exchange_a # None
    /\ bot.orderbooks.exchange_b # None
    /\ bot.orderbooks.last_update = 1
    /\ now = 2

----------------------------------------------------------------------------
(* Claims about reloads of out-of-range configurations (SpecInvalidReload) *)

\* C28: update_entry_config called during an entry with a configuration that
\* has entry_full_pct < entry_start_pct, target_amount <= 0 or
\* max_slippage_pct <= 0 is rejected: entry_config, the refill delay and the
\* validator's duration are the previous ones afterwards.
C28_InvalidReloadRejected ==
    [][ \A config \in InvalidEntryConfigs :
          (/\ mgr.mode = "entry"
           /\ last_op' = "update_entry_config"
           /\ mgr' = update_entry_config(mgr, config))
            => /\ mgr'.entry_config = mgr.entry_config
               /\ mgr'.current_refill_delay_ms = mgr.current_refill_delay_ms
               /\ mgr'.signal_validator.min_validity_ms
                    = mgr.signal_validator.min_validity_ms
      ]_vars

----------------------------------------------------------------------------
(* Claims about the analyzer's and the book's methods (SpecAnalyzer)       *)

AnalyzerCalled(op) == an # None /\ Get(an).op = op

\* C31: find_best_opportunity(a, b) and find_best_opportunity(b, a) return the
\* same direction (buy_exchange, sell_exchange) and the same net spread, or
\* both None, also when the two directions have equal net spread.
C31_OpportunitySymmetry ==
    AnalyzerCalled("find_best_opportunity") =>
        LET c       == Get(an)
            swapped == find_best_opportunity(c.analyzer, c.ob_b, c.ob_a, c.size)
        IN  /\ (c.result = None) <=> (swapped = None)
            /\ c.result # None =>
                  /\ Get(c.result).buy_exchange = Get(swapped).buy_exchange
                  /\ Get(c.result).sell_exchange = Get(swapped).sell_exchange
                  /\ Get(c.result).net_spread_after_slippage
                       = Get(swapped).net_spread_after_slippage

\* C32: _find_max_profitable_size tries at most 10 midpoints and returns r
\* with 0 <= r <= min(buy.ask_depth, sell.bid_depth); if r > 0 the net spread
\* recomputed at size r is > 0, and r = 0 when the net spread was <= 0 at
\* every midpoint tried.
C32_MaxProfitableBisection ==
    AnalyzerCalled("_find_max_profitable_size") =>
        LET c    == Get(an)
            r    == c.result.min_size
            mids == c.result.mids
        IN  /\ Len(mids) <= MaxProfitableIterations
            /\ 0 <= r
            /\ r <= Min(ask_depth(c.ob_a), bid_depth(c.ob_b))
            /\ r > 0 => net_spread_at(c.analyzer, c.ob_a, c.ob_b, r) > 0
            /\ (\A i \in 1..Len(mids) :
                    net_spread_at(c.analyzer, c.ob_a, c.ob_b, mids[i]) <= 0) => r = 0

C32_Witness ==
    /\ AnalyzerCalled("_find_max_profitable_size")
    /\ Get(an).result.min_size > 0
    /\ Get(an).result.min_size < Min(ask_depth(Get(an).ob_a), bid_depth(Get(an).ob_b))
    /\ Len(Get(an).result.mids) = MaxProfitableIterations
    /\ \E i \in 1..Len(Get(an).result.mids) :
          net_spread_at(Get(an).analyzer, Get(an).ob_a, Get(an).ob_b,
                        Get(an).result.mids[i]) <= 0

\* C33: on a book with ascending asks and descending bids the buy and the sell
\* slippage are 0 at size 0, never negative, and for sizes s1 <= s2 (sizes past
\* the visible depth included) the slippage at s1 is at most that at s2.
C33_MonotoneSlippage ==
    AnalyzerCalled("estimate_slippage") =>
        LET c  == Get(an)
            s2 == Get(c.size)
        IN  /\ c.result.buy >= 0
            /\ c.result.sell >= 0
            /\ s2 = 0 => (c.result.buy = 0 /\ c.result.sell = 0)
            /\ \A s1 \in AnalyzerSizes :
                  s1 <= s2 => /\ estimate_buy_slippage(c.ob_a, s1) <= c.result.buy
                              /\ estimate_sell_slippage(c.ob_a, s1) <= c.result.sell

C33_Witness ==
    /\ AnalyzerCalled("estimate_slippage")
    /\ Get(Get(an).size) > ask_depth(Get(an).ob_a)
    /\ Get(Get(an).size) > bid_depth(Get(an).ob_a)
    /\ Get(an).result.buy > estimate_buy_slippage(Get(an).ob_a, ask_depth(Get(an).ob_a))
    /\ Get(an).result.sell > estimate_sell_slippage(Get(an).ob_a, bid_depth(Get(an).ob_a))
    /\ estimate_buy_slippage(Get(an).ob_a, 3000) > 0

----------------------------------------------------------------------------
(* Claims about restarted and removed bots (SpecRestart)                   *)

\* a bot.run() task at this place has entered its loop and has not returned
LoopActive(pc) == pc \in {"polling", "connect_a", "connect_b", "ws_loop"}

\* C34: a bot is driven by at most one task at any time: no two
\* run()/run_polling()/run_websocket() loops of the same bot are active
\* together, whatever the interleaving of create_bot, stop_bot and start_bot.
C34_OneDriverPerBot ==
    \A i \in BotIds :
        ~(/\ bm.bots[i].prev_pc # None
          /\ LoopActive(Get(bm.bots[i].prev_pc))
          /\ LoopActive(bm.bots[i].pc))

\* C35: no two bots registered in the manager with running = true have the
\* same symbol.
C35_OneRunningBotPerSymbol ==
    \A i, j \in BotIds :
        (/\ i # j
         /\ bm.bots[i].created /\ bm.bots[i].running
         /\ bm.bots[j].created /\ bm.bots[j].running)
          => bm.bots[i].config.symbol # bm.bots[j].config.symbol

----------------------------------------------------------------------------
(* Claims about the observer queue (SpecObserver)                          *)

\* C30: the observer queue has a fixed capacity that its length never
\* exceeds: the capacity does not change, and whenever a posted update is
\* added the queue has a positive capacity and stays within it (an update
\* posted while the queue is full is dropped).
C30_BoundedObserverQueue ==
    [][ /\ cm'.maxsize = cm.maxsize
        /\ Len(cm'.queue) > Len(cm.queue)
             => (cm.maxsize > 0 /\ Len(cm'.queue) <= cm.maxsize)
      ]_vars

----------------------------------------------------------------------------
(* Claims about reloads during an exit (SpecExitReload)                    *)

\* C37: update_entry_config called in EXIT mode leaves the exit episode as it
\* was: the refill delay that can_fire() uses and the validator's duration
\* stay those of the ExitConfig given to start_exit.
C37_ExitUntouchedByEntryReload ==
    [][ (mgr.mode = "exit" /\ last_op' = "update_entry_config")
          => /\ mgr'.mode = "exit"
             /\ mgr'.exit_config = mgr.exit_config
             /\ mgr'.current_refill_delay_ms = Get(mgr.exit_config).refill_delay_ms
             /\ mgr'.signal_validator.min_validity_ms
                  = Get(mgr.exit_config).min_validity_ms
      ]_vars

----------------------------------------------------------------------------
(* Claims about the manager's adapters and driver tasks (SpecManager)      *)

\* C21: for every venue at most one adapter object is built and initialized,
\* and two bots created for the same venues hold the same adapter objects.
C21_OneAdapterPerVenue ==
    /\ \A v \in Venues :
          Cardinality({k \in 1..Len(bm.objs) :
                         bm.objs[k].venue = v /\ bm.objs[k].initialized}) <= 1
    /\ \A i, j \in BotIds :
          (bm.bots[i].created /\ bm.bots[j].created)
          => /\ bm.bots[i].exchange_a = bm.bots[j].exchange_a
             /\ bm.bots[i].exchange_b = bm.bots[j].exchange_b

AdaptersOf(m, i) ==
    {k \in 1..Len(m.objs) : Some(k) \in {m.bots[i].exchange_a, m.bots[i].exchange_b}}

\* C22: the cleanup of a stopped bot's driver task leaves alone every adapter
\* that another bot, running in its push loop, holds.
C22_SharedAdapterOutlivesStop ==
    [][ \A i, j \in BotIds :
          ( /\ i # j
            /\ bm.bots[i].pc # "done" /\ bm'.bots[i].pc = "done"
            /\ bm.bots[j].running /\ bm.bots[j].ws_mode /\ bm.bots[j].pc = "ws_loop" )
          => \A k \in AdaptersOf(bm, j) : bm'.objs[k] = bm.objs[k]
      ]_vars

\* C36: the books a bot has cached carry the bot's own symbol (a push update
\* for a symbol reaches the bot subscribed to it and no other), also when two
\* bots on different symbols share an adapter.
C36_BookCacheIsolation ==
    \A i \in BotIds :
        /\ bm.bots[i].book_a # None => Get(bm.bots[i].book_a) = bm.bots[i].config.symbol
        /\ bm.bots[i].book_b # None => Get(bm.bots[i].book_b) = bm.bots[i].config.symbol

----------------------------------------------------------------------------
(* Claims about one push-mode bot (SpecPush)                               *)

\* C23: when stop_bot returns the feeds' reader tasks of the bot have ended,
\* and from then on no push callback or poll of the bot runs: ws_updates and
\* polls of a stopped bot do not change.
C23_StopIsFinal ==
    [][ \A i \in BotIds :
          /\ (~bm.bots[i].stopped /\ bm'.bots[i].stopped)
              => \A k \in AdaptersOf(bm', i) : ~bm'.objs[k].ws_task
          /\ bm.bots[i].stopped
              => /\ bm'.bots[i].ws_updates = bm.bots[i].ws_updates
                 /\ bm'.bots[i].polls = bm.bots[i].polls
      ]_vars

\* C24: when connect_websocket of either venue fails at the start of
\* run_websocket, ws_mode becomes false and the task goes on in run_polling;
\* there ws_mode stays false, a poll is made only while running is true, not
\* before poll_interval_ms has passed since the last one, and the task leaves
\* run_polling only once running is false.
C24_FallbackToPolling ==
    [][ \A i \in BotIds :
          /\ (bm.bots[i].pc = "connect_b" /\ bm'.bots[i].pc # "connect_b")
              => IF /\ bm.bots[i].ws_a
                    /\ bm'.objs[Get(bm.bots[i].exchange_b)].connected
                 THEN bm'.bots[i].pc = "ws_loop" /\ bm'.bots[i].ws_mode
                 ELSE bm'.bots[i].pc = "polling" /\ ~bm'.bots[i].ws_mode
          /\ (bm.bots[i].pc = "polling")
              => /\ ~bm'.bots[i].ws_mode
                 /\ bm'.bots[i].pc # "polling" => ~bm.bots[i].running
          /\ (bm'.bots[i].polls > bm.bots[i].polls)
              => /\ bm.bots[i].pc = "polling"
                 /\ bm.bots[i].running
                 /\ bm'.bots[i].polls = bm.bots[i].polls + 1
                 /\ now >= bm.bots[i].wake_ms
                 /\ bm'.bots[i].wake_ms = now + bm.bots[i].config.poll_interval_ms
      ]_vars

\* Feed A connected, feed B did not: the bot, still running, has polled twice.
C24_Witness ==
    /\ bm.bots[1].pc = "polling"
    /\ bm.bots[1].running
    /\ ~bm.bots[1].ws_mode
    /\ bm.bots[1].ws_a
    /\ ~bm.objs[Get(bm.bots[1].exchange_b)].connected
    /\ bm.bots[1].polls = 2
    /\ now = 2

\* C25: a bot whose last three reconnect attempts in a row have failed has
\* been demoted to polling: it is no longer in the push loop and its ws_mode
\* is false.
C25_DemotedAfterThreeFailures ==
    \A i \in BotIds :
        bm.bots[i].failed_reconnects >= 3
        => bm.bots[i].pc \in {"polling", "done"} /\ ~bm.bots[i].ws_mode

----------------------------------------------------------------------------
(* Claims about the grid/TWAP exit manager (SpecHybrid)                    *)

Thresholds(levels) == [k \in 1..Len(levels) |-> levels[k].spread_threshold]

\* C39: a call of update_config whose new config differs from the previous
\* one in grid_levels_count, grid_start_spread or grid_end_spread rebuilds
\* the grid: afterwards the level thresholds are those generated from the
\* new config, and every level whose index existed before keeps its
\* triggered flag.
C39_UpdateConfigRebuildsGrid ==
    [][ (last_op' = "hybrid_update_config" /\ now' = now /\ hm' # hm) =>
           /\ Thresholds(hm'.grid_levels) = Thresholds(grid_levels_of(hm'.config))
           /\ \A k \in 1..Min(Len(hm.grid_levels), Len(hm'.grid_levels)) :
                  hm'.grid_levels[k].triggered = hm.grid_levels[k].triggered ]_vars

\* C40: in an exit episode every signal to execute asks for at most
\* remaining_position, remaining_position never becomes negative, and
\* remaining_position + total_executed = initial_position.
C40_NeverAsksMoreThanLeft ==
    hm.state \in {"executing", "completed"} =>
        /\ hm.remaining_position >= 0
        /\ hm.remaining_position + hm.total_executed = hm.initial_position
        /\ HybridPending => Get(last_result).qty <= hm.remaining_position

====
